---- MODULE Spec2Model ----
(***************************************************************************)
(* opi-evpn-bridge: the InfraDB convergence engine.                        *)
(*                                                                         *)
(* The gRPC handlers of the vrf service, the bridge-port create/delete     *)
(* helpers, the LogicalBridge / BridgePort / Svi domain objects and the    *)
(* FRR subscriber are translated from the sources.  The InfraDB facade     *)
(* (infradb.CreateVrf, infradb.DeleteVrf, infradb.Update<Kind>Status, ...) *)
(* the task manager, the event bus and the Vrf domain object are not part  *)
(* of the sources at hand; they are written from the specification and     *)
(* say so in their comments.                                               *)
(***************************************************************************)
EXTENDS Integers, Sequences, FiniteSets, TLC

VARIABLES
    store,        \* the key-value store: resource name -> domain object
    ListHelper,   \* per service: the Server.ListHelper map (its key set)
    nextVersion,  \* how many resource versions generateVersion() has handed out
    nextNotif,    \* how many NotificationIDs have been handed out
    taskQueue,    \* the task manager's FIFO queue of tasks
    tm,           \* the task manager's worker: idle, waiting for a status, or replaying
    retries,      \* tasks waiting for their backoff timer to re-enter the queue
    chans,        \* the event-bus channel of every (subscriber, event type) worker
    errCh,        \* the values written to the preReplay ActionData.ErrCh
    faults,       \* how many back-end failures the environment has injected
    crashed,      \* TRUE once a handler has dereferenced a nil pointer (process abort)
    inflight,     \* the UpdateVrf calls that have fetched the object and not yet written
    last          \* the response of the RPC executed by the step just taken

vars == <<store, ListHelper, nextVersion, nextNotif, taskQueue, tm, retries,
          chans, errCh, faults, crashed, inflight, last>>

----------------------------------------------------------------------------
(* Bounds of the exploration *)

\* resource versions handed out in one behaviour
MaxVersion == 4
MaxReplayVersion == 8
\* notifications published in one behaviour
MaxNotif == 10
\* back-end failures injected in one behaviour
MaxFaults == 1
\* back-end failures injected in one behaviour of SpecReplay
MaxReplayFaults == 6
\* UpdateVrf calls in progress at one time
MaxInflight == 2

----------------------------------------------------------------------------
(* Names, kinds and the subscriber registry *)

Nil == -1

VrfNames == {"v1"}
LBNames == {"lb1"}
BPNames == {"bp1", "bp2"}
SviNames == {"s1", "s2"}
Macs == {"m1", "m2"}

KindVrf == "vrf"
KindLB == "logical-bridge"
KindBP == "bridge-port"
KindSvi == "svi"
Kinds == {KindVrf, KindLB, KindBP, KindSvi}

frrComp == "frr"
lgmComp == "lgm"

\* eventbus.EBus.GetSubscribers(eventType): the subscribers of a kind in
\* priority order, as the configuration registers them.
GetSubscribers(kind) ==
    IF kind \in {KindVrf, KindSvi} THEN <<lgmComp, frrComp>> ELSE <<lgmComp>>

\* One event-bus worker (and channel) per (subscriber name, event type).
SubKeys ==
    UNION {{<<GetSubscribers(k)[i], k>> : i \in 1..Len(GetSubscribers(k))} : k \in Kinds}

----------------------------------------------------------------------------
(* common.Component and the per-object component vector *)

ComponentStatusPending == "Pending"
ComponentStatusSuccess == "Success"
ComponentStatusError == "Error"

OperStatusUp == "Up"
OperStatusDown == "Down"
OperStatusToBeDeleted == "ToBeDeleted"

\* replayThreshold, in seconds
replayThreshold == 64

Component(name, status, details, timer) ==
    [Name |-> name, CompStatus |-> status, Details |-> details, Timer |-> timer]

NewComponentsFirstOnly(kind) ==
    [i \in 1..1 |->
        Component(GetSubscribers(kind)[i], ComponentStatusPending, "", 0)]

\* The loop of New<Kind>: one Pending component per subscriber, in priority order.
NewComponents(kind) ==
    [i \in 1..Len(GetSubscribers(kind)) |->
        Component(GetSubscribers(kind)[i], ComponentStatusPending, "", 0)]

\* The index of the first component named `name`, 0 when there is none.
FirstIndex(comps, name) ==
    IF \E i \in 1..Len(comps) : comps[i].Name = name
    THEN CHOOSE i \in 1..Len(comps) :
            /\ comps[i].Name = name
            /\ \A j \in 1..(i - 1) : comps[j].Name # name
    ELSE 0

\* setComponentState that puts every other component back to Pending.
setComponentStateResetsOthers(obj, component) ==
    [obj EXCEPT !.Components =
        [i \in 1..Len(obj.Components) |->
            IF obj.Components[i].Name = component.Name THEN component
            ELSE Component(obj.Components[i].Name, ComponentStatusPending, "", 0)]]

\* setComponentState that writes the report over every component.
setComponentStateBroken(obj, component) ==
    [obj EXCEPT !.Components =
        [i \in 1..Len(obj.Components) |-> component]]

\* setComponentState without the break: every component of the name is replaced.
setComponentStateNoBreak(obj, component) ==
    [obj EXCEPT !.Components =
        [i \in 1..Len(obj.Components) |->
            IF obj.Components[i].Name = component.Name THEN component
            ELSE obj.Components[i]]]

\* setComponentState: replace the first component with the reported name.
setComponentState(obj, component) ==
    LET i == FirstIndex(obj.Components, component.Name)
    IN IF i = 0 THEN obj
       ELSE [obj EXCEPT !.Components[i] = component]

\* checkForAllSuccess: every component is in Success state.
checkForAllSuccessAny(obj) ==
    \E i \in 1..Len(obj.Components) :
        obj.Components[i].CompStatus = ComponentStatusSuccess

checkForAllSuccess(obj) ==
    \A i \in 1..Len(obj.Components) :
        obj.Components[i].CompStatus = ComponentStatusSuccess

\* The positions of the named component alone.
ReplayPositionsOnlyNamed(obj, componentName) ==
    {i \in 1..Len(obj.Components) : obj.Components[i].Name = componentName}

\* The positions prepareObjectsForReplay resets.
ReplayPositions(obj, componentName) ==
    {i \in 1..Len(obj.Components) :
        \/ obj.Components[i].Name = componentName
        \/ obj.Components[i].CompStatus # ComponentStatusSuccess}

\* The subsequence of `seq` at the positions in `pos`, in order.
RECURSIVE SubSeqAt(_, _, _)
SubSeqAt(seq, pos, i) ==
    IF i > Len(seq) THEN <<>>
    ELSE (IF i \in pos THEN <<seq[i]>> ELSE <<>>) \o SubSeqAt(seq, pos, i + 1)

\* prepareObjectsForReplay: the object after the call (version is the value
\* generateVersion() returns) ...
prepareObjectsForReplayKeepVersion(obj, componentName, version) ==
    [obj EXCEPT
        !.Components =
            [i \in 1..Len(obj.Components) |->
                IF i \in ReplayPositions(obj, componentName)
                THEN Component(obj.Components[i].Name, ComponentStatusPending, "", 0)
                ELSE obj.Components[i]],
        !.OperStatus =
            IF obj.OperStatus = OperStatusUp THEN OperStatusDown ELSE obj.OperStatus]

prepareObjectsForReplayAllDown(obj, componentName, version) ==
    [obj EXCEPT
        !.Components =
            [i \in 1..Len(obj.Components) |->
                IF i \in ReplayPositions(obj, componentName)
                THEN Component(obj.Components[i].Name, ComponentStatusPending, "", 0)
                ELSE obj.Components[i]],
        !.OperStatus = OperStatusDown,
        !.ResourceVersion = version]

prepareObjectsForReplay(obj, componentName, version) ==
    [obj EXCEPT
        !.Components =
            [i \in 1..Len(obj.Components) |->
                IF i \in ReplayPositions(obj, componentName)
                THEN Component(obj.Components[i].Name, ComponentStatusPending, "", 0)
                ELSE obj.Components[i]],
        !.OperStatus =
            IF obj.OperStatus = OperStatusUp THEN OperStatusDown ELSE obj.OperStatus,
        !.ResourceVersion = version]

\* ... and the subscribers it returns.
prepareObjectsForReplaySubs(obj, componentName, subs) ==
    SubSeqAt(subs, ReplayPositions(obj, componentName), 1)

----------------------------------------------------------------------------
(* Domain objects *)

EmptyMap == [m \in {} |-> ""]

\* infradb.NewVrf / NewVrfWithArgs (written from the specification: Down, one
\* Pending component per subscriber, a fresh version, no SVIs).
NewVrf(name, vni, loopback, version) ==
    [Kind |-> KindVrf, Name |-> name,
     Spec |-> [Vni |-> vni, LoopbackIP |-> loopback],
     OperStatus |-> OperStatusDown,
     Components |-> NewComponents(KindVrf),
     Svis |-> {},
     ResourceVersion |-> version]

\* NewLogicalBridge
NewLogicalBridge(name, version) ==
    [Kind |-> KindLB, Name |-> name,
     Spec |-> [VlanID |-> 22],
     OperStatus |-> OperStatusDown,
     Components |-> NewComponents(KindLB),
     Svi |-> "",
     BridgePorts |-> {},
     MacTable |-> EmptyMap,
     ResourceVersion |-> version]

\* NewBridgePort with the flag of a port that names bridges on every port.
NewBridgePortNeverTransparent(name, ptype, mac, lbs, version) ==
    [Kind |-> KindBP, Name |-> name,
     Spec |-> [Ptype |-> ptype, MacAddress |-> mac, LogicalBridges |-> lbs],
     OperStatus |-> OperStatusDown,
     Components |-> NewComponents(KindBP),
     TransparentTrunk |-> FALSE,
     ResourceVersion |-> version]

\* NewBridgePort
NewBridgePort(name, ptype, mac, lbs, version) ==
    [Kind |-> KindBP, Name |-> name,
     Spec |-> [Ptype |-> ptype, MacAddress |-> mac, LogicalBridges |-> lbs],
     OperStatus |-> OperStatusDown,
     Components |-> NewComponents(KindBP),
     TransparentTrunk |-> (Len(lbs) = 0),
     ResourceVersion |-> version]

\* NewSvi
NewSvi(name, vrf, lb, enableBgp, remoteAs, version) ==
    [Kind |-> KindSvi, Name |-> name,
     Spec |-> [Vrf |-> vrf, LogicalBridge |-> lb, EnableBgp |-> enableBgp,
               RemoteAs |-> remoteAs],
     OperStatus |-> OperStatusDown,
     Components |-> NewComponents(KindSvi),
     ResourceVersion |-> version]

\* ToPb: the protobuf message of a domain object.  It carries the name, the
\* spec, the oper status and, of every component, the name, status and details;
\* it carries no resource version, no timer and no reverse reference.
ToPb(obj) ==
    [Name |-> obj.Name,
     Spec |-> IF obj.Kind = KindBP /\ obj.TransparentTrunk
              THEN [obj.Spec EXCEPT !.LogicalBridges = <<>>]
              ELSE obj.Spec,
     OperStatus |-> obj.OperStatus,
     Components |-> [i \in 1..Len(obj.Components) |->
                        [Name |-> obj.Components[i].Name,
                         Status |-> obj.Components[i].CompStatus,
                         Details |-> obj.Components[i].Details]]]

\* LogicalBridge.AddSvi: the error and the bridge after the call.
AddSviNoCheck(lb, sviName) ==
    [err |-> FALSE, lb |-> [lb EXCEPT !.Svi = sviName]]

AddSvi(lb, sviName) ==
    IF lb.Svi # ""
    THEN [err |-> TRUE, lb |-> lb]
    ELSE [err |-> FALSE, lb |-> [lb EXCEPT !.Svi = sviName]]

\* LogicalBridge.DeleteSvi
DeleteSvi(lb, sviName) ==
    IF lb.Svi # sviName
    THEN [err |-> TRUE, lb |-> lb]
    ELSE [err |-> FALSE, lb |-> [lb EXCEPT !.Svi = ""]]

MapSet(map, key, value) ==
    [k \in DOMAIN map \cup {key} |-> IF k = key THEN value ELSE map[k]]

MapDelete(map, key) ==
    [k \in DOMAIN map \ {key} |-> map[k]]

\* LogicalBridge.AddBridgePort
AddBridgePortNoMacCheck(lb, bpName, bpMac) ==
    IF bpName \in lb.BridgePorts
    THEN [err |-> TRUE, lb |-> lb]
    ELSE [err |-> FALSE,
          lb |-> [lb EXCEPT !.BridgePorts = @ \cup {bpName},
                            !.MacTable = MapSet(@, bpMac, bpName)]]

AddBridgePort(lb, bpName, bpMac) ==
    IF bpName \in lb.BridgePorts
    THEN [err |-> TRUE, lb |-> lb]
    ELSE IF bpMac \in DOMAIN lb.MacTable
    THEN [err |-> TRUE, lb |-> lb]
    ELSE [err |-> FALSE,
          lb |-> [lb EXCEPT !.BridgePorts = @ \cup {bpName},
                            !.MacTable = MapSet(@, bpMac, bpName)]]

\* LogicalBridge.DeleteBridgePort
DeleteBridgePort(lb, bpName, bpMac) ==
    IF bpName \notin lb.BridgePorts
    THEN [err |-> TRUE, lb |-> lb]
    ELSE IF bpMac \notin DOMAIN lb.MacTable
    THEN [err |-> TRUE, lb |-> lb]
    ELSE [err |-> FALSE,
          lb |-> [lb EXCEPT !.BridgePorts = @ \ {bpName},
                            !.MacTable = MapDelete(@, bpMac)]]

----------------------------------------------------------------------------
(* The store, tasks and RPC responses *)

Put(st, obj) ==
    [k \in DOMAIN st \cup {obj.Name} |-> IF k = obj.Name THEN obj ELSE st[k]]

Remove(st, name) ==
    [k \in DOMAIN st \ {name} |-> st[k]]

Task(kind, name, version, subs) ==
    [objectType |-> kind, name |-> name, resourceVersion |-> version, subs |-> subs]

\* Error values of the Go code.
ErrNil == "nil"
ErrKeyNotFound == "infradb.ErrKeyNotFound"
BadgerErrKeyNotFound == "badger.ErrKeyNotFound"

CodeOK == "OK"
CodeNotFound == "NotFound"
CodeFailedPrecondition == "FailedPrecondition"
CodeVersionMismatch == "VersionMismatch"
CodeInvalidArgument == "InvalidArgument"

\* The answer of an RPC: the RPC, the name and the other arguments of the
\* request, the status code and the object returned.
Resp(op, name, args, code, ret) ==
    [op |-> op, name |-> name, args |-> args, code |-> code, ret |-> ret]

NoResp == Resp("none", "", <<>>, "", <<>>)

\* infradb.Get<Kind>: the error it returns for a name (written from the
\* specification and from what CreateVrf, UpdateVrf and GetVrf test for).
getErr(name) ==
    IF name \in DOMAIN store THEN ErrNil ELSE ErrKeyNotFound

\* The object an accepted Delete persists: ToBeDeleted, every component
\* Pending again, a new version (written from the specification).
MarkToBeDeleted(obj, version) ==
    [obj EXCEPT !.OperStatus = OperStatusToBeDeleted,
                !.Components = NewComponents(obj.Kind),
                !.ResourceVersion = version]

\* HasDependents: what makes infradb.Delete<Kind> refuse (written from the
\* specification: a Vrf with SVIs, a LogicalBridge with an SVI or ports).
HasDependents(obj) ==
    CASE obj.Kind = KindVrf -> obj.Svis # {}
      [] obj.Kind = KindLB -> obj.Svi # "" \/ obj.BridgePorts # {}
      [] OTHER -> FALSE

RPCsUnchanged == UNCHANGED <<nextNotif, tm, retries, chans, errCh, faults, crashed>>

TMUnchanged == RPCsUnchanged /\ UNCHANGED inflight

\* infradb.Delete<Kind>(name) for a name that is in the store, followed by
\* delete(s.ListHelper, name) as in deleteBridgePort.
deleteObject(op, name, args) ==
    LET obj == store[name] IN
    IF HasDependents(obj)
    THEN /\ last' = Resp(op, name, args, CodeFailedPrecondition, <<>>)
         /\ UNCHANGED <<store, ListHelper, nextVersion, taskQueue>>
    ELSE /\ nextVersion < MaxVersion
         /\ store' = Put(store, MarkToBeDeleted(obj, nextVersion + 1))
         /\ nextVersion' = nextVersion + 1
         /\ taskQueue' = Append(taskQueue,
                Task(obj.Kind, name, nextVersion + 1, GetSubscribers(obj.Kind)))
         /\ ListHelper' = [ListHelper EXCEPT ![obj.Kind] = @ \ {name}]
         /\ last' = Resp(op, name, args, CodeOK, <<>>)

\* infradb.Create<Kind>(obj) with the reverse references `refs` (the referenced
\* objects after Add*), then s.ListHelper[name] = false as in createBridgePort.
createObject(op, obj, refs, args) ==
    /\ store' = [k \in DOMAIN store \cup {obj.Name} |->
                    IF k = obj.Name THEN obj
                    ELSE IF k \in DOMAIN refs THEN refs[k] ELSE store[k]]
    /\ nextVersion' = nextVersion + 1
    /\ taskQueue' = Append(taskQueue,
            Task(obj.Kind, obj.Name, obj.ResourceVersion, GetSubscribers(obj.Kind)))
    /\ ListHelper' = [ListHelper EXCEPT ![obj.Kind] = @ \cup {obj.Name}]
    /\ last' = Resp(op, obj.Name, args, CodeOK, <<ToPb(obj)>>)

----------------------------------------------------------------------------
(* The vrf service *)

\* CreateVrf
CreateVrfNoLookup(id, vni, loopback) ==
    /\ ~crashed
    /\ nextVersion < MaxVersion
    /\ createObject("CreateVrf", NewVrf(id, vni, loopback, nextVersion + 1), EmptyMap, <<>>)
    /\ TMUnchanged

CreateVrf(id, vni, loopback) ==
    /\ ~crashed
    /\ IF getErr(id) = ErrNil
       THEN \* idempotent API when called with same key, should return same object
            /\ last' = Resp("CreateVrf", id, <<>>, CodeOK, <<ToPb(store[id])>>)
            /\ UNCHANGED <<store, ListHelper, nextVersion, taskQueue>>
       ELSE /\ nextVersion < MaxVersion
            /\ createObject("CreateVrf", NewVrf(id, vni, loopback, nextVersion + 1),
                            EmptyMap, <<>>)
    /\ TMUnchanged

\* DeleteVrf
DeleteVrfIgnoresError(name, allowMissing) ==
    /\ ~crashed
    /\ IF getErr(name) # ErrNil
       THEN /\ last' =
                IF getErr(name) # BadgerErrKeyNotFound
                THEN Resp("DeleteVrf", name, <<allowMissing>>, getErr(name), <<>>)
                ELSE IF ~allowMissing
                THEN Resp("DeleteVrf", name, <<allowMissing>>, CodeNotFound, <<>>)
                ELSE Resp("DeleteVrf", name, <<allowMissing>>, CodeOK, <<>>)
            /\ UNCHANGED <<store, ListHelper, nextVersion, taskQueue>>
       ELSE IF HasDependents(store[name])
       THEN /\ last' = Resp("DeleteVrf", name, <<allowMissing>>, CodeOK, <<>>)
            /\ UNCHANGED <<store, ListHelper, nextVersion, taskQueue>>
       ELSE deleteObject("DeleteVrf", name, <<allowMissing>>)
    /\ TMUnchanged

DeleteVrf(name, allowMissing) ==
    /\ ~crashed
    /\ IF getErr(name) # ErrNil
       THEN /\ last' =
                IF getErr(name) # BadgerErrKeyNotFound
                THEN Resp("DeleteVrf", name, <<allowMissing>>, getErr(name), <<>>)
                ELSE IF ~allowMissing
                THEN Resp("DeleteVrf", name, <<allowMissing>>, CodeNotFound, <<>>)
                ELSE Resp("DeleteVrf", name, <<allowMissing>>, CodeOK, <<>>)
            /\ UNCHANGED <<store, ListHelper, nextVersion, taskQueue>>
       ELSE deleteObject("DeleteVrf", name, <<allowMissing>>)
    /\ TMUnchanged

\* UpdateVrf: the request carries the spec the field mask produces.
UpdateVrfNoCompare(name, vni, loopback, allowMissing) ==
    /\ ~crashed
    /\ IF getErr(name) # ErrNil
       THEN IF getErr(name) # ErrKeyNotFound
            THEN /\ last' = Resp("UpdateVrf", name, <<allowMissing, vni, loopback>>, getErr(name), <<>>)
                 /\ UNCHANGED <<store, ListHelper, nextVersion, taskQueue>>
            ELSE IF ~allowMissing
            THEN /\ last' = Resp("UpdateVrf", name, <<allowMissing, vni, loopback>>, CodeNotFound, <<>>)
                 /\ UNCHANGED <<store, ListHelper, nextVersion, taskQueue>>
            ELSE /\ nextVersion < MaxVersion
                 /\ createObject("UpdateVrf",
                        NewVrf(name, vni, loopback, nextVersion + 1), EmptyMap,
                        <<allowMissing, vni, loopback>>)
       ELSE IF FALSE
            THEN /\ last' = Resp("UpdateVrf", name, <<allowMissing, vni, loopback>>,
                                  CodeOK, <<ToPb(store[name])>>)
                 /\ UNCHANGED <<store, ListHelper, nextVersion, taskQueue>>
            ELSE /\ nextVersion < MaxVersion
                 /\ LET vrf == [NewVrf(name, vni, loopback, nextVersion + 1)
                                  EXCEPT !.Svis = store[name].Svis] IN
                    /\ store' = Put(store, vrf)
                    /\ taskQueue' = Append(taskQueue,
                            Task(KindVrf, name, vrf.ResourceVersion, GetSubscribers(KindVrf)))
                    /\ last' = Resp("UpdateVrf", name, <<allowMissing, vni, loopback>>,
                                       CodeOK, <<ToPb(vrf)>>)
                 /\ nextVersion' = nextVersion + 1
                 /\ UNCHANGED ListHelper
    /\ TMUnchanged

\* UpdateVrf that answers NotFound for every missing name.
UpdateVrfIgnoresAllowMissing(name, vni, loopback, allowMissing) ==
    /\ ~crashed
    /\ IF getErr(name) # ErrNil
       THEN IF getErr(name) # ErrKeyNotFound
            THEN /\ last' = Resp("UpdateVrf", name, <<allowMissing, vni, loopback>>, getErr(name), <<>>)
                 /\ UNCHANGED <<store, ListHelper, nextVersion, taskQueue>>
            ELSE IF TRUE
            THEN /\ last' = Resp("UpdateVrf", name, <<allowMissing, vni, loopback>>, CodeNotFound, <<>>)
                 /\ UNCHANGED <<store, ListHelper, nextVersion, taskQueue>>
            ELSE /\ nextVersion < MaxVersion
                 /\ createObject("UpdateVrf",
                        NewVrf(name, vni, loopback, nextVersion + 1), EmptyMap,
                        <<allowMissing, vni, loopback>>)
       ELSE IF [Vni |-> vni, LoopbackIP |-> loopback] = store[name].Spec
            THEN /\ last' = Resp("UpdateVrf", name, <<allowMissing, vni, loopback>>,
                                  CodeOK, <<ToPb(store[name])>>)
                 /\ UNCHANGED <<store, ListHelper, nextVersion, taskQueue>>
            ELSE /\ nextVersion < MaxVersion
                 /\ LET vrf == [NewVrf(name, vni, loopback, nextVersion + 1)
                                  EXCEPT !.Svis = store[name].Svis] IN
                    /\ store' = Put(store, vrf)
                    /\ taskQueue' = Append(taskQueue,
                            Task(KindVrf, name, vrf.ResourceVersion, GetSubscribers(KindVrf)))
                    /\ last' = Resp("UpdateVrf", name, <<allowMissing, vni, loopback>>,
                                       CodeOK, <<ToPb(vrf)>>)
                 /\ nextVersion' = nextVersion + 1
                 /\ UNCHANGED ListHelper
    /\ TMUnchanged

\* UpdateVrf
UpdateVrf(name, vni, loopback, allowMissing) ==
    /\ ~crashed
    /\ IF getErr(name) # ErrNil
       THEN IF getErr(name) # ErrKeyNotFound
            THEN /\ last' = Resp("UpdateVrf", name, <<allowMissing, vni, loopback>>, getErr(name), <<>>)
                 /\ UNCHANGED <<store, ListHelper, nextVersion, taskQueue>>
            ELSE IF ~allowMissing
            THEN /\ last' = Resp("UpdateVrf", name, <<allowMissing, vni, loopback>>, CodeNotFound, <<>>)
                 /\ UNCHANGED <<store, ListHelper, nextVersion, taskQueue>>
            ELSE /\ nextVersion < MaxVersion
                 /\ createObject("UpdateVrf",
                        NewVrf(name, vni, loopback, nextVersion + 1), EmptyMap,
                        <<allowMissing, vni, loopback>>)
       ELSE IF [Vni |-> vni, LoopbackIP |-> loopback] = store[name].Spec
            THEN /\ last' = Resp("UpdateVrf", name, <<allowMissing, vni, loopback>>,
                                  CodeOK, <<ToPb(store[name])>>)
                 /\ UNCHANGED <<store, ListHelper, nextVersion, taskQueue>>
            ELSE /\ nextVersion < MaxVersion
                 /\ LET vrf == [NewVrf(name, vni, loopback, nextVersion + 1)
                                  EXCEPT !.Svis = store[name].Svis] IN
                    /\ store' = Put(store, vrf)
                    /\ taskQueue' = Append(taskQueue,
                            Task(KindVrf, name, vrf.ResourceVersion, GetSubscribers(KindVrf)))
                    /\ last' = Resp("UpdateVrf", name, <<allowMissing, vni, loopback>>,
                                       CodeOK, <<ToPb(vrf)>>)
                 /\ nextVersion' = nextVersion + 1
                 /\ UNCHANGED ListHelper
    /\ TMUnchanged

\* utils.ApplyMaskToStoredPbObject: the fields the mask names are taken from
\* the request, the others stay as they were read.
ApplyMaskToStoredPbObject(mask, stored, vni, loopback) ==
    [Vni |-> IF "vni" \in mask THEN vni ELSE stored.Vni,
     LoopbackIP |-> IF "loopback_ip" \in mask THEN loopback ELSE stored.LoopbackIP]

\* UpdateVrf as the gRPC server runs it next to other calls, in two steps.
\* First step: validation and s.getVrf; the call holds the object it read.
UpdateVrfFetch(name, mask, vni, loopback) ==
    /\ ~crashed
    /\ IF getErr(name) # ErrNil
       THEN /\ last' = Resp("UpdateVrf", name, <<FALSE, mask, vni, loopback>>,
                            CodeNotFound, <<>>)
            /\ UNCHANGED inflight
       ELSE /\ Cardinality(inflight) < MaxInflight
            /\ inflight' = inflight \cup
                    {[name |-> name, mask |-> mask, vni |-> vni, loopback |-> loopback,
                      read |-> store[name]]}
            /\ last' = NoResp
    /\ UNCHANGED <<store, ListHelper, nextVersion, taskQueue>>
    /\ RPCsUnchanged

\* Second step: the mask is applied to a clone of the object read; the object
\* read is returned when the two are equal, else s.updateVrf persists the
\* clone (the facade's Update: a new version, components Pending, a task).
UpdateVrfStore(req) ==
    /\ ~crashed
    /\ req \in inflight
    /\ inflight' = inflight \ {req}
    /\ LET updated == ApplyMaskToStoredPbObject(req.mask, req.read.Spec, req.vni, req.loopback)
           args == <<FALSE, req.mask, req.vni, req.loopback>>
       IN IF updated = req.read.Spec
          THEN /\ last' = Resp("UpdateVrf", req.name, args, CodeOK, <<ToPb(req.read)>>)
               /\ UNCHANGED <<store, nextVersion, taskQueue>>
          ELSE IF getErr(req.name) # ErrNil
          THEN /\ last' = Resp("UpdateVrf", req.name, args, CodeNotFound, <<>>)
               /\ UNCHANGED <<store, nextVersion, taskQueue>>
          ELSE /\ nextVersion < MaxVersion
               /\ LET vrf == [NewVrf(req.name, updated.Vni, updated.LoopbackIP,
                                     nextVersion + 1)
                                EXCEPT !.Svis = store[req.name].Svis] IN
                  /\ store' = Put(store, vrf)
                  /\ taskQueue' = Append(taskQueue,
                        Task(KindVrf, req.name, vrf.ResourceVersion, GetSubscribers(KindVrf)))
                  /\ last' = Resp("UpdateVrf", req.name, args, CodeOK, <<ToPb(vrf)>>)
               /\ nextVersion' = nextVersion + 1
    /\ UNCHANGED ListHelper
    /\ RPCsUnchanged

\* The names of every kind in the order of their bytes: what sortVrfs and the
\* like compare (written from the specification: List is sorted by Name).
NameOrder == <<"GRD", "bp1", "bp2", "lb1", "lb9", "s1", "s2", "v1", "v2">>

SortByName(names) == SelectSeq(NameOrder, LAMBDA n : n \in names)

\* ListVrfs with the default page size and no page token: the objects of the
\* keys of s.ListHelper, sorted; a key that getVrf does not find ends the call
\* with getVrf's error unless that error is badger.ErrKeyNotFound.
ListVrfs ==
    /\ ~crashed
    /\ LET keys == SortByName(ListHelper[KindVrf]) IN
       last' =
         IF \E i \in 1..Len(keys) : getErr(keys[i]) # ErrNil
         THEN Resp("ListVrfs", "", <<>>,
                   IF ErrKeyNotFound # BadgerErrKeyNotFound
                   THEN ErrKeyNotFound ELSE CodeNotFound, <<>>)
         ELSE Resp("ListVrfs", "", <<>>, CodeOK,
                   [i \in 1..Len(keys) |-> ToPb(store[keys[i]])])
    /\ UNCHANGED <<store, ListHelper, nextVersion, taskQueue>>
    /\ TMUnchanged

----------------------------------------------------------------------------
(* The logical-bridge, bridge-port and svi services.  Their helpers follow  *)
(* createBridgePort / deleteBridgePort; the reference checks of the InfraDB *)
(* facade behind them are written from the specification.                   *)

Range(seq) == {seq[i] : i \in 1..Len(seq)}

\* Delete<Kind> of the services whose handler is not in the sources: NotFound
\* unless AllowMissing (written from the specification).
deleteRPC(op, kind, name, allowMissing) ==
    /\ ~crashed
    /\ IF getErr(name) # ErrNil
       THEN /\ last' = Resp(op, name, <<allowMissing>>,
                            IF allowMissing THEN CodeOK ELSE CodeNotFound, <<>>)
            /\ UNCHANGED <<store, ListHelper, nextVersion, taskQueue>>
       ELSE deleteObject(op, name, <<allowMissing>>)
    /\ TMUnchanged

createLogicalBridge(id) ==
    /\ ~crashed
    /\ IF getErr(id) = ErrNil
       THEN /\ last' = Resp("CreateLogicalBridge", id, <<>>, CodeOK, <<ToPb(store[id])>>)
            /\ UNCHANGED <<store, ListHelper, nextVersion, taskQueue>>
       ELSE /\ nextVersion < MaxVersion
            /\ createObject("CreateLogicalBridge",
                            NewLogicalBridge(id, nextVersion + 1), EmptyMap, <<>>)
    /\ TMUnchanged

deleteLogicalBridge(name, allowMissing) ==
    deleteRPC("DeleteLogicalBridge", KindLB, name, allowMissing)

\* The bridges of a new port after AddBridgePort, and whether one refuses.
PortRefsErr(id, mac, lbs) ==
    \E i \in 1..Len(lbs) :
        \/ lbs[i] \notin DOMAIN store
        \/ AddBridgePort(store[lbs[i]], id, mac).err

PortRefs(id, mac, lbs) ==
    [k \in Range(lbs) |-> AddBridgePort(store[k], id, mac).lb]

\* validateBridgePortSpec: an Access port names exactly one bridge; a Trunk
\* port names any number of them, none making it a transparent trunk.
validateBridgePortSpec(ptype, lbs) ==
    IF ptype = "Access" /\ Len(lbs) # 1 THEN CodeInvalidArgument ELSE ErrNil

\* createBridgePort
createBridgePort(id, ptype, mac, lbs) ==
    /\ ~crashed
    /\ IF getErr(id) = ErrNil
       THEN /\ last' = Resp("CreateBridgePort", id, <<mac>>, CodeOK, <<ToPb(store[id])>>)
            /\ UNCHANGED <<store, ListHelper, nextVersion, taskQueue>>
       ELSE IF validateBridgePortSpec(ptype, lbs) # ErrNil
       THEN /\ last' = Resp("CreateBridgePort", id, <<mac>>,
                            validateBridgePortSpec(ptype, lbs), <<>>)
            /\ UNCHANGED <<store, ListHelper, nextVersion, taskQueue>>
       ELSE IF PortRefsErr(id, mac, lbs)
       THEN /\ last' = Resp("CreateBridgePort", id, <<mac>>, CodeFailedPrecondition, <<>>)
            /\ UNCHANGED <<store, ListHelper, nextVersion, taskQueue>>
       ELSE /\ nextVersion < MaxVersion
            /\ createObject("CreateBridgePort",
                            NewBridgePort(id, ptype, mac, lbs, nextVersion + 1),
                            PortRefs(id, mac, lbs), <<mac>>)
    /\ TMUnchanged

\* deleteBridgePort
deleteBridgePort(name, allowMissing) ==
    deleteRPC("DeleteBridgePort", KindBP, name, allowMissing)

\* The referenced objects of a new Svi after the back-references are added.
SviRefsErr(id, vrf, lb) ==
    \/ vrf \notin DOMAIN store
    \/ lb \notin DOMAIN store
    \/ AddSvi(store[lb], id).err

SviRefs(id, vrf, lb) ==
    [k \in {vrf, lb} |->
        IF k = vrf THEN [store[vrf] EXCEPT !.Svis = @ \cup {id}]
        ELSE AddSvi(store[lb], id).lb]

createSviEagerRefs(id, vrf, lb, enableBgp, remoteAs) ==
    /\ ~crashed
    /\ IF getErr(id) = ErrNil
       THEN /\ last' = Resp("CreateSvi", id, <<vrf, lb, enableBgp, remoteAs>>,
                            CodeOK, <<ToPb(store[id])>>)
            /\ UNCHANGED <<store, ListHelper, nextVersion, taskQueue>>
       ELSE IF SviRefsErr(id, vrf, lb)
       THEN /\ last' = Resp("CreateSvi", id, <<vrf, lb, enableBgp, remoteAs>>,
                            CodeFailedPrecondition, <<>>)
            /\ store' = IF vrf \in DOMAIN store
                        THEN Put(store, [store[vrf] EXCEPT !.Svis = @ \cup {id}])
                        ELSE store
            /\ UNCHANGED <<ListHelper, nextVersion, taskQueue>>
       ELSE /\ nextVersion < MaxVersion
            /\ createObject("CreateSvi",
                            NewSvi(id, vrf, lb, enableBgp, remoteAs, nextVersion + 1),
                            SviRefs(id, vrf, lb), <<vrf, lb, enableBgp, remoteAs>>)
    /\ TMUnchanged

createSvi(id, vrf, lb, enableBgp, remoteAs) ==
    /\ ~crashed
    /\ IF getErr(id) = ErrNil
       THEN /\ last' = Resp("CreateSvi", id, <<vrf, lb, enableBgp, remoteAs>>,
                            CodeOK, <<ToPb(store[id])>>)
            /\ UNCHANGED <<store, ListHelper, nextVersion, taskQueue>>
       ELSE IF SviRefsErr(id, vrf, lb)
       THEN /\ last' = Resp("CreateSvi", id, <<vrf, lb, enableBgp, remoteAs>>,
                            CodeFailedPrecondition, <<>>)
            /\ UNCHANGED <<store, ListHelper, nextVersion, taskQueue>>
       ELSE /\ nextVersion < MaxVersion
            /\ createObject("CreateSvi",
                            NewSvi(id, vrf, lb, enableBgp, remoteAs, nextVersion + 1),
                            SviRefs(id, vrf, lb), <<vrf, lb, enableBgp, remoteAs>>)
    /\ TMUnchanged

\* utils.ValidateMacAddress, on the addresses the requests carry.
ValidateMacAddress(mac) == mac \in Macs

\* validateSviSpec: the status code of the error, ErrNil when there is none.
\* The resource names of the requests conform to AIP-122.
validateSviSpec(mac, enableBgp, remoteAs) ==
    IF ~ValidateMacAddress(mac) THEN CodeInvalidArgument
    ELSE IF remoteAs > 65535 THEN CodeInvalidArgument
    ELSE ErrNil

\* CreateSvi: the spec is validated first (written from the specification,
\* with the validator of the sources), then the object is created.
CreateSvi(id, vrf, lb, mac, enableBgp, remoteAs) ==
    IF validateSviSpec(mac, enableBgp, remoteAs) # ErrNil
    THEN /\ ~crashed
         /\ last' = Resp("CreateSvi", id, <<vrf, lb, enableBgp, remoteAs>>,
                         validateSviSpec(mac, enableBgp, remoteAs), <<>>)
         /\ UNCHANGED <<store, ListHelper, nextVersion, taskQueue>>
         /\ TMUnchanged
    ELSE createSvi(id, vrf, lb, enableBgp, remoteAs)

deleteSvi(name, allowMissing) ==
    deleteRPC("DeleteSvi", KindSvi, name, allowMissing)

----------------------------------------------------------------------------
(* The task manager and the event bus (written from the specification) *)

NoTask == Task("", "", 0, <<>>)
NoComponent == Component("", "", "", 0)

TMIdle == [state |-> "idle", task |-> NoTask, nid |-> 0, comp |-> NoComponent]
TMWaiting(task, nid) == [state |-> "waiting", task |-> task, nid |-> nid, comp |-> NoComponent]
TMWoken(task, comp) == [state |-> "woken", task |-> task, nid |-> 0, comp |-> comp]
TMReplay(comp) == [state |-> "replay", task |-> NoTask, nid |-> 0, comp |-> comp]

ObjectData(name, version, nid) ==
    [Name |-> name, ResourceVersion |-> version, NotificationID |-> nid]

\* EventBus.Publish to the one subscriber `sub` of the task's object type.
Publish(task, sub, nid) ==
    [chans EXCEPT ![<<sub, task.objectType>>] =
        Append(@, ObjectData(task.name, task.resourceVersion, nid))]

RPCUnchanged == UNCHANGED <<ListHelper, nextVersion, inflight>>

\* Step 1 of the task algorithm: the task is stale when its object is gone or
\* has a newer resource version.
Stale(task) ==
    \/ task.name \notin DOMAIN store
    \/ store[task.name].ResourceVersion # task.resourceVersion

\* processTasks without step 1: a stale task is notified like any other.
processTasksNoStaleCheck ==
    /\ ~crashed
    /\ tm.state = "idle"
    /\ taskQueue # <<>>
    /\ taskQueue' = Tail(taskQueue)
    /\ LET task == Head(taskQueue) IN
       IF task.subs = <<>>
       THEN UNCHANGED <<tm, chans, nextNotif>>
       ELSE /\ nextNotif < MaxNotif
            /\ nextNotif' = nextNotif + 1
            /\ chans' = Publish(task, task.subs[1], nextNotif + 1)
            /\ tm' = TMWaiting(task, nextNotif + 1)
    /\ last' = IF Stale(Head(taskQueue))
               THEN Resp("DropTask", Head(taskQueue).name,
                         <<Head(taskQueue).resourceVersion>>, CodeVersionMismatch, <<>>)
               ELSE NoResp
    /\ UNCHANGED <<store, retries, errCh, faults, crashed>>
    /\ RPCUnchanged

\* The worker takes the next task: drops it when stale, else notifies the first
\* of its remaining subscribers and waits for the status update.
processTasks ==
    /\ ~crashed
    /\ tm.state = "idle"
    /\ taskQueue # <<>>
    /\ taskQueue' = Tail(taskQueue)
    /\ LET task == Head(taskQueue) IN
       IF Stale(task) \/ task.subs = <<>>
       THEN UNCHANGED <<tm, chans, nextNotif>>
       ELSE /\ nextNotif < MaxNotif
            /\ nextNotif' = nextNotif + 1
            /\ chans' = Publish(task, task.subs[1], nextNotif + 1)
            /\ tm' = TMWaiting(task, nextNotif + 1)
    /\ last' = IF Stale(Head(taskQueue))
               THEN Resp("DropTask", Head(taskQueue).name,
                         <<Head(taskQueue).resourceVersion>>, CodeVersionMismatch, <<>>)
               ELSE NoResp
    /\ UNCHANGED <<store, retries, errCh, faults, crashed>>
    /\ RPCUnchanged

\* The bounded wait for a status update runs out: the task is abandoned.
taskTimeout ==
    /\ ~crashed
    /\ tm.state = "waiting"
    /\ tm' = TMIdle
    /\ last' = NoResp
    /\ UNCHANGED <<store, taskQueue, retries, chans, errCh, faults, crashed, nextNotif>>
    /\ RPCUnchanged

\* statusUpdated that goes on to the next subscriber whatever was reported.
statusUpdatedAdvanceOnError ==
    /\ ~crashed
    /\ tm.state = "woken"
    /\ IF Len(tm.task.subs) <= 1
       THEN /\ tm' = TMIdle
            /\ UNCHANGED <<chans, nextNotif, retries, errCh>>
       ELSE /\ nextNotif < MaxNotif
            /\ nextNotif' = nextNotif + 1
            /\ chans' = Publish(tm.task, tm.task.subs[2], nextNotif + 1)
            /\ tm' = TMWaiting([tm.task EXCEPT !.subs = Tail(@)], nextNotif + 1)
            /\ UNCHANGED <<retries, errCh>>
    /\ last' = NoResp
    /\ UNCHANGED <<store, taskQueue, faults, crashed>>
    /\ RPCUnchanged

\* The worker acts on the status it was woken with: the next subscriber on
\* Success; on Error a replay when the timer has reached the threshold, else a
\* retry of this task after the timer.
statusUpdated ==
    /\ ~crashed
    /\ tm.state = "woken"
    /\ IF tm.comp.CompStatus = ComponentStatusSuccess
       THEN IF Len(tm.task.subs) <= 1
            THEN /\ tm' = TMIdle
                 /\ UNCHANGED <<chans, nextNotif, retries, errCh>>
            ELSE /\ nextNotif < MaxNotif
                 /\ nextNotif' = nextNotif + 1
                 /\ chans' = Publish(tm.task, tm.task.subs[2], nextNotif + 1)
                 /\ tm' = TMWaiting([tm.task EXCEPT !.subs = Tail(@)], nextNotif + 1)
                 /\ UNCHANGED <<retries, errCh>>
       ELSE IF tm.comp.Timer >= replayThreshold
            THEN /\ tm' = TMReplay(tm.comp)
                 /\ errCh' = <<>>
                 /\ UNCHANGED <<chans, nextNotif, retries>>
            ELSE /\ retries' = retries \cup {tm.task}
                 /\ tm' = TMIdle
                 /\ UNCHANGED <<chans, nextNotif, errCh>>
    /\ last' = NoResp
    /\ UNCHANGED <<store, taskQueue, faults, crashed>>
    /\ RPCUnchanged

\* A backoff timer fires: the task re-enters the queue.
retryTask(task) ==
    /\ ~crashed
    /\ task \in retries
    /\ retries' = retries \ {task}
    /\ taskQueue' = Append(taskQueue, task)
    /\ last' = NoResp
    /\ UNCHANGED <<store, tm, chans, errCh, faults, crashed, nextNotif>>
    /\ RPCUnchanged

----------------------------------------------------------------------------
(* infradb.Update<Kind>Status (written from the specification; it uses      *)
(* setComponentState and checkForAllSuccess of the domain objects)          *)

\* The store after a row is removed: the reverse references to it go too.
RemoveWithRefs(st, obj) ==
    LET st1 == Remove(st, obj.Name) IN
    [k \in DOMAIN st1 |->
        IF obj.Kind = KindSvi /\ k = obj.Spec.LogicalBridge
        THEN DeleteSvi(st1[k], obj.Name).lb
        ELSE IF obj.Kind = KindSvi /\ k = obj.Spec.Vrf
        THEN [st1[k] EXCEPT !.Svis = @ \ {obj.Name}]
        ELSE IF obj.Kind = KindBP /\ k \in Range(obj.Spec.LogicalBridges)
        THEN DeleteBridgePort(st1[k], obj.Name, obj.Spec.MacAddress).lb
        ELSE st1[k]]

UpdateStatusAcceptedAnyVersion(od) ==
    od.Name \in DOMAIN store

UpdateStatusAccepted(od) ==
    /\ od.Name \in DOMAIN store
    /\ store[od.Name].ResourceVersion = od.ResourceVersion

\* The error a rejected status update returns, which the handler logs.
UpdateStatusErr(od) ==
    IF od.Name \notin DOMAIN store THEN ErrKeyNotFound ELSE CodeVersionMismatch

StatusResp(od, component) ==
    IF UpdateStatusAccepted(od) THEN NoResp
    ELSE Resp("UpdateStatus", od.Name, <<od.ResourceVersion>>, UpdateStatusErr(od),
              <<component>>)

\* The store after an accepted status update: the component is set; when all
\* components are Success the object goes Up, or its row is removed when it
\* is ToBeDeleted.
StoreAfterStatus(name, component) ==
    LET obj == setComponentState(store[name], component) IN
    IF checkForAllSuccess(obj)
    THEN IF obj.OperStatus = OperStatusToBeDeleted
         THEN RemoveWithRefs(store, obj)
         ELSE Put(store, [obj EXCEPT !.OperStatus = OperStatusUp])
    ELSE Put(store, obj)

\* Update<Kind>Status(name, resourceVersion, notificationID, nil, component):
\* rejected when the object is gone or its version has moved; else persisted,
\* and the task manager is woken when it waits for this notification.
UpdateStatus(od, component) ==
    IF UpdateStatusAccepted(od)
    THEN /\ store' = StoreAfterStatus(od.Name, component)
         /\ tm' = IF tm.state = "waiting" /\ tm.nid = od.NotificationID
                  THEN TMWoken(tm.task, component)
                  ELSE tm
    ELSE UNCHANGED <<store, tm>>

----------------------------------------------------------------------------
(* The FRR module *)

Outcome(status, details, injected, panic) ==
    [status |-> status, details |-> details, injected |-> injected, panic |-> panic]

OutcomeOk(details) == Outcome(TRUE, details, FALSE, FALSE)
OutcomeFail == Outcome(FALSE, "error", TRUE, FALSE)
OutcomePanic == Outcome(FALSE, "", FALSE, TRUE)

\* path.Base(vrf.Name) == "GRD"
IsGRD(name) == name = "GRD"

\* setUpVrf: what the call can do, over the FRR commands failing or not.
setUpVrf(vrf) ==
    IF IsGRD(vrf.Name) THEN {OutcomeOk("")}
    ELSE IF vrf.Spec.Vni # Nil
    THEN {OutcomeFail} \cup
         (IF vrf.Spec.LoopbackIP # Nil
          THEN {OutcomeFail, OutcomeOk("rd")}
          ELSE {OutcomePanic})
    ELSE {OutcomeOk("")}

\* tearDownVrf
tearDownVrf(vrf) ==
    IF IsGRD(vrf.Name) THEN {OutcomeOk("")}
    ELSE {OutcomeOk("")} \cup
         (IF vrf.Spec.Vni = Nil THEN {OutcomePanic}
          ELSE IF vrf.Spec.Vni # 0 THEN {OutcomeFail, OutcomeOk("")}
          ELSE {OutcomeOk("")})

\* setUpSvi
setUpSvi(svi) ==
    IF svi.Spec.LogicalBridge \notin DOMAIN store
    THEN {Outcome(FALSE, "unable to find key", FALSE, FALSE)}
    ELSE IF svi.Spec.EnableBgp
    THEN {OutcomeFail, OutcomeOk("")}
    ELSE {OutcomeOk("")}

\* tearDownSvi
tearDownSvi(svi) ==
    IF svi.Spec.LogicalBridge \notin DOMAIN store
    THEN {Outcome(FALSE, "unable to find key", FALSE, FALSE)}
    ELSE IF svi.Spec.EnableBgp
    THEN {OutcomeFail, OutcomeOk("")}
    ELSE {OutcomeOk("")}

\* The component a handler starts from: the stored one with its name, else
\* the zero value.
StoredComponent(obj, name) ==
    LET i == FirstIndex(obj.Components, name) IN
    IF i = 0 THEN NoComponent ELSE obj.Components[i]

\* The component a handler reports after set-up or tear-down.
ReportedComponentKeepTimer(comp, name, out) ==
    IF out.status
    THEN Component(name, ComponentStatusSuccess, out.details, comp.Timer)
    ELSE Component(name, ComponentStatusError, out.details,
                   IF comp.Timer = 0 THEN 2 ELSE comp.Timer * 2)

ReportedComponentLinear(comp, name, out) ==
    IF out.status
    THEN Component(name, ComponentStatusSuccess, out.details, 0)
    ELSE Component(name, ComponentStatusError, out.details, comp.Timer + 2)

ReportedComponent(comp, name, out) ==
    IF out.status
    THEN Component(name, ComponentStatusSuccess, out.details, 0)
    ELSE Component(name, ComponentStatusError, out.details,
                   IF comp.Timer = 0 THEN 2 ELSE comp.Timer * 2)

\* The body shared by handlevrf and handlesvi after the object is fetched.
handleFetched(od, name, op, outcomes, budget) ==
    \E out \in outcomes :
        IF out.panic
        THEN /\ crashed' = TRUE
             /\ last' = Resp(op, od.Name, <<od.ResourceVersion>>, "panic", <<>>)
             /\ UNCHANGED <<store, tm, faults>>
        ELSE /\ out.injected => faults < budget
             /\ faults' = IF out.injected THEN faults + 1 ELSE faults
             /\ UpdateStatus(od,
                    ReportedComponent(StoredComponent(store[od.Name], name), name, out))
             /\ last' = Resp(op, od.Name, <<od.ResourceVersion>>, CodeOK,
                    <<ReportedComponent(StoredComponent(store[od.Name], name), name, out)>>)
             /\ UNCHANGED crashed

\* An early return that reports Success.
handleUnreadableReportsSuccess(od, name, details) ==
    /\ UpdateStatus(od, Component(name, ComponentStatusSuccess, details, 0))
    /\ last' = StatusResp(od, Component(name, ComponentStatusSuccess, details, 0))
    /\ UNCHANGED <<faults, crashed>>

\* An early return that reports the timer of the replay threshold.
handleUnreadableAtThreshold(od, name, details) ==
    /\ UpdateStatus(od, Component(name, ComponentStatusError, details, replayThreshold))
    /\ last' = StatusResp(od, Component(name, ComponentStatusError, details,
                                        replayThreshold))
    /\ UNCHANGED <<faults, crashed>>

\* The two early returns of a handler: the object cannot be read, or its
\* version is not the notification's.
handleUnreadable(od, name, details) ==
    /\ UpdateStatus(od, Component(name, ComponentStatusError, details, 2))
    /\ last' = StatusResp(od, Component(name, ComponentStatusError, details, 2))
    /\ UNCHANGED <<faults, crashed>>

\* The operation a handler runs on the object it fetched.
OpSetUp == "setUp"
OpTearDown == "tearDown"

\* handlevrf that sets up whatever the OperStatus is.
handlevrfAlwaysSetUp(od, budget) ==
    IF od.Name \notin DOMAIN store
    THEN handleUnreadable(od, frrComp, "GetVRF error")
    ELSE IF od.ResourceVersion # store[od.Name].ResourceVersion
    THEN handleUnreadable(od, frrComp, "Mismatch in resource version")
    ELSE handleFetched(od, frrComp, OpSetUp, setUpVrf(store[od.Name]), budget)

\* handlevrf
handlevrf(od, budget) ==
    IF od.Name \notin DOMAIN store
    THEN handleUnreadable(od, frrComp, "GetVRF error")
    ELSE IF od.ResourceVersion # store[od.Name].ResourceVersion
    THEN handleUnreadable(od, frrComp, "Mismatch in resource version")
    ELSE IF store[od.Name].OperStatus # OperStatusToBeDeleted
    THEN handleFetched(od, frrComp, OpSetUp, setUpVrf(store[od.Name]), budget)
    ELSE handleFetched(od, frrComp, OpTearDown, tearDownVrf(store[od.Name]), budget)

\* handlesvi
handlesvi(od, budget) ==
    IF od.Name \notin DOMAIN store
    THEN handleUnreadable(od, frrComp, "GetSvi error")
    ELSE IF od.ResourceVersion # store[od.Name].ResourceVersion
    THEN handleUnreadable(od, frrComp, "Mismatch in resource version")
    ELSE IF store[od.Name].OperStatus # OperStatusToBeDeleted
    THEN handleFetched(od, frrComp, OpSetUp, setUpSvi(store[od.Name]), budget)
    ELSE handleFetched(od, frrComp, OpTearDown, tearDownSvi(store[od.Name]), budget)

\* A subscriber whose module is not in the sources, by the subscriber
\* contract: re-fetch, verify the version, report Success or Error once.
handleByContract(od, name, budget) ==
    IF od.Name \notin DOMAIN store
    THEN handleUnreadable(od, name, "not found")
    ELSE IF od.ResourceVersion # store[od.Name].ResourceVersion
    THEN handleUnreadable(od, name, "Mismatch in resource version")
    ELSE handleFetched(od, name,
            IF store[od.Name].OperStatus # OperStatusToBeDeleted
            THEN OpSetUp ELSE OpTearDown,
            {OutcomeFail, OutcomeOk("")}, budget)

\* moduleFrrHandler.HandleEvent and the other workers: one notification is
\* taken from the channel and handled.
HandleEvent(sub, kind, budget) ==
    /\ ~crashed
    /\ chans[<<sub, kind>>] # <<>>
    /\ chans' = [chans EXCEPT ![<<sub, kind>>] = Tail(@)]
    /\ LET od == Head(chans[<<sub, kind>>]) IN
       IF sub = frrComp /\ kind = KindVrf THEN handlevrf(od, budget)
       ELSE IF sub = frrComp /\ kind = KindSvi THEN handlesvi(od, budget)
       ELSE handleByContract(od, sub, budget)
    /\ UNCHANGED <<taskQueue, retries, errCh, nextNotif>>
    /\ RPCUnchanged

----------------------------------------------------------------------------
(* The replay driver (written from the specification) and preReplay *)

\* The steps of handlePreReplay that can fail, in the order it runs them:
\* os.Rename, os.ReadFile, os.WriteFile, user.Lookup, two strconv.Atoi,
\* os.Chown and the restart of the daemon.
PreReplaySteps ==
    <<"rename", "readFile", "writeFile", "lookup", "uid", "gid", "chown", "restart">>

\* deferErr when only the assignment of the first step reaches the deferred
\* send.
deferErrFirstStepOnly(fails, i) ==
    IF "rename" \in fails THEN "rename" ELSE ErrNil

\* The value of deferErr when handlePreReplay returns, from step i on: the
\* error of the first step that fails (`fails` holds the steps that fail when
\* they are run), nil when all of them succeed.
RECURSIVE deferErr(_, _)
deferErr(fails, i) ==
    IF i > Len(PreReplaySteps) THEN ErrNil
    ELSE IF PreReplaySteps[i] \in fails THEN PreReplaySteps[i]
    ELSE deferErr(fails, i + 1)

\* The failures of the pre-replay steps in the specifications with a replay.
PreReplayFailures == {{}, {"rename"}, {"restart"}}

\* What the deferred send writes to ErrCh under these failures.
PreReplayResults == {deferErr(fails, 1) : fails \in PreReplayFailures}

\* ModuleFrrActionHandler.HandleAction("preReplay") -> handlePreReplay: the
\* deferred function sends deferErr to ErrCh once, on every return.
handlePreReplay(fails) ==
    /\ ~crashed
    /\ tm.state = "replay"
    /\ errCh = <<>>
    /\ errCh' = Append(errCh, deferErr(fails, 1))
    /\ last' = Resp("preReplay", frrComp, <<fails>>, deferErr(fails, 1), <<>>)
    /\ UNCHANGED <<store, taskQueue, tm, retries, chans, faults, crashed, nextNotif>>
    /\ RPCUnchanged

\* A walk that starts with the Svis.
ReplayOrderSvisFirst == <<"s1", "s2", "GRD", "v1", "lb1", "bp1", "bp2">>

\* The order in which replay walks the persisted objects.
ReplayOrder == <<"GRD", "v1", "lb1", "bp1", "bp2", "s1", "s2">>

Persisted == SelectSeq(ReplayOrder, LAMBDA n : n \in DOMAIN store)

PositionIn(seq, x) == CHOOSE i \in 1..Len(seq) : seq[i] = x

\* After the acknowledgement: every persisted object is prepared and gets
\* one task for the subscribers prepareObjectsForReplay returns.
replayUpTo(maxVersion) ==
    /\ ~crashed
    /\ tm.state = "replay"
    /\ errCh # <<>>
    /\ nextVersion + Len(Persisted) <= maxVersion
    /\ store' = [k \in DOMAIN store |->
            prepareObjectsForReplay(store[k], tm.comp.Name,
                                    nextVersion + PositionIn(Persisted, k))]
    /\ taskQueue' = taskQueue \o
            [i \in 1..Len(Persisted) |->
                Task(store[Persisted[i]].Kind, Persisted[i], nextVersion + i,
                     prepareObjectsForReplaySubs(store[Persisted[i]], tm.comp.Name,
                            GetSubscribers(store[Persisted[i]].Kind)))]
    /\ nextVersion' = nextVersion + Len(Persisted)
    /\ errCh' = <<>>
    /\ tm' = TMIdle
    /\ last' = NoResp
    /\ UNCHANGED <<ListHelper, retries, chans, faults, crashed, nextNotif, inflight>>

replay == replayUpTo(MaxVersion)

----------------------------------------------------------------------------
(* Specifications *)

Init ==
    /\ store = [k \in {} |-> NoTask]
    /\ ListHelper = [k \in Kinds |-> {}]
    /\ nextVersion = 0
    /\ nextNotif = 0
    /\ taskQueue = <<>>
    /\ tm = TMIdle
    /\ retries = {}
    /\ chans = [k \in SubKeys |-> <<>>]
    /\ errCh = <<>>
    /\ faults = 0
    /\ crashed = FALSE
    /\ inflight = {}
    /\ last = NoResp

\* The (Vni, LoopbackIP) pairs of the Vrf requests.
VrfSpecs == {<<100, 1>>, <<Nil, Nil>>}

\* The bridges an Svi request can name: one of them is never created.
LBRefs == LBNames \cup {"lb9"}

\* The (Ptype, LogicalBridges) pairs of the BridgePort requests.
PortShapes == {<<"Access", <<l>>>> : l \in LBNames}

\* The task-manager worker, its timers and the subscribers' workers.
TaskManagerNext(budget) ==
    \/ processTasks
    \/ taskTimeout
    \/ statusUpdated
    \/ \E task \in retries : retryTask(task)
    \/ \E key \in SubKeys : HandleEvent(key[1], key[2], budget)

ReplayNext ==
    \/ \E fails \in PreReplayFailures : handlePreReplay(fails)
    \/ replay

\* The vrf service under every request of its three mutating RPCs.
Next ==
    \/ \E id \in VrfNames, sp \in VrfSpecs : CreateVrf(id, sp[1], sp[2])
    \/ \E id \in VrfNames, am \in BOOLEAN : DeleteVrf(id, am)
    \/ \E id \in VrfNames, sp \in VrfSpecs, am \in BOOLEAN :
            UpdateVrf(id, sp[1], sp[2], am)
    \/ TaskManagerNext(MaxFaults)

Spec == Init /\ [][Next]_vars

\* Vrf, LogicalBridge and Svi together: the references of an Svi.
NextSvi ==
    \/ \E id \in VrfNames : CreateVrf(id, 100, 1)
    \/ \E id \in VrfNames : DeleteVrf(id, FALSE)
    \/ \E id \in LBNames : createLogicalBridge(id)
    \/ \E id \in LBNames : deleteLogicalBridge(id, FALSE)
    \/ \E id \in SviNames, vrf \in VrfNames, lb \in LBRefs :
            createSvi(id, vrf, lb, FALSE, 0)
    \/ \E id \in SviNames : deleteSvi(id, FALSE)
    \/ TaskManagerNext(MaxFaults)

SpecSvi == Init /\ [][NextSvi]_vars

\* LogicalBridge and BridgePort together: the ports of a bridge.
NextPorts ==
    \/ \E id \in LBNames : createLogicalBridge(id)
    \/ \E id \in LBNames : deleteLogicalBridge(id, FALSE)
    \/ \E id \in BPNames, shape \in PortShapes, mac \in Macs :
            createBridgePort(id, shape[1], mac, shape[2])
    \/ \E id \in BPNames : deleteBridgePort(id, FALSE)
    \/ TaskManagerNext(MaxFaults)

SpecPorts == Init /\ [][NextPorts]_vars

\* A Vrf and a LogicalBridge with enough failures of one component for its
\* timer to reach the replay threshold.
NextReplay ==
    \/ \E id \in VrfNames : CreateVrf(id, 100, 1)
    \/ \E id \in LBNames : createLogicalBridge(id)
    \/ TaskManagerNext(MaxReplayFaults)
    \/ ReplayNext

SpecReplay == Init /\ [][NextReplay]_vars

\* main: createGrdVrf runs once, before the gRPC server is started.  It calls
\* infradb.CreateVrf itself, not the vrf service: no ListHelper is written.
GrdName == "GRD"

createGrdVrf ==
    /\ ~crashed
    /\ nextVersion = 0
    /\ GrdName \notin DOMAIN store
    /\ store' = Put(store, NewVrf(GrdName, Nil, Nil, nextVersion + 1))
    /\ nextVersion' = nextVersion + 1
    /\ taskQueue' = Append(taskQueue,
            Task(KindVrf, GrdName, nextVersion + 1, GetSubscribers(KindVrf)))
    /\ last' = NoResp
    /\ UNCHANGED ListHelper
    /\ TMUnchanged

\* runGrpcServer is reached: createGrdVrf has taken the first resource version.
Started == nextVersion > 0

\* The vrf service after start-up, with the GRD Vrf in the store.
NextGrd ==
    \/ createGrdVrf
    \/ Started /\ \E id \in VrfNames : CreateVrf(id, 100, 1)
    \/ Started /\ \E id \in VrfNames \cup {GrdName} : DeleteVrf(id, FALSE)
    \/ Started /\ ListVrfs
    \/ TaskManagerNext(MaxFaults)

SpecGrd == Init /\ [][NextGrd]_vars

\* The wait of the worker runs out only when the status it waits for cannot
\* come any more: the subscriber has taken the notification and its status
\* update was rejected.  Every subscriber answers within the wait.
taskTimeoutAfterReply ==
    /\ \A key \in SubKeys : \A i \in 1..Len(chans[key]) :
            chans[key][i].NotificationID # tm.nid
    /\ taskTimeout

\* The vrf service with subscribers that answer in time and fail at most
\* MaxFaults times, and with workers and timers that run when they can.
NextLive ==
    \/ \E id \in VrfNames : CreateVrf(id, 100, 1)
    \/ \E id \in VrfNames : UpdateVrf(id, 200, 2, FALSE)
    \/ \E id \in VrfNames : DeleteVrf(id, FALSE)
    \/ processTasks
    \/ taskTimeoutAfterReply
    \/ statusUpdated
    \/ \E task \in retries : retryTask(task)
    \/ \E key \in SubKeys : HandleEvent(key[1], key[2], MaxFaults)

Fairness ==
    /\ WF_vars(processTasks)
    /\ WF_vars(taskTimeoutAfterReply)
    /\ WF_vars(statusUpdated)
    /\ WF_vars(\E task \in retries : retryTask(task))
    /\ \A key \in SubKeys : WF_vars(HandleEvent(key[1], key[2], MaxFaults))

SpecLive == Init /\ [][NextLive]_vars /\ Fairness

\* The RemoteAs values of the Svi requests (a uint32) and their addresses,
\* one of them malformed.
RemoteAsValues == {0, 1, 65535, 65536}
SviMacs == {"m1", "bad"}

\* The svi service under requests with and without BGP.
NextSviSpec ==
    \/ \E id \in VrfNames : CreateVrf(id, 100, 1)
    \/ \E id \in LBNames : createLogicalBridge(id)
    \/ \E vrf \in VrfNames, lb \in LBNames, mac \in SviMacs,
          enableBgp \in BOOLEAN, remoteAs \in RemoteAsValues :
            CreateSvi("s1", vrf, lb, mac, enableBgp, remoteAs)
    \/ TaskManagerNext(MaxFaults)

SpecSviSpec == Init /\ [][NextSviSpec]_vars

\* Every way the stored value of a Vrf is replaced: Update, Delete, replay.
NextVersions ==
    \/ \E id \in VrfNames : CreateVrf(id, 100, 1)
    \/ \E id \in VrfNames : UpdateVrf(id, 200, 2, FALSE)
    \/ \E id \in VrfNames : DeleteVrf(id, FALSE)
    \/ TaskManagerNext(MaxReplayFaults)
    \/ ReplayNext

SpecVersions == Init /\ [][NextVersions]_vars

\* The field masks and values of the concurrent UpdateVrf requests.
UpdateMasks == {{"vni"}, {"loopback_ip"}}

\* The vrf service with UpdateVrf calls running next to each other.
NextUpdate ==
    \/ \E id \in VrfNames : CreateVrf(id, 100, 1)
    \/ \E id \in VrfNames, mask \in UpdateMasks : UpdateVrfFetch(id, mask, 200, 2)
    \/ \E req \in inflight : UpdateVrfStore(req)
    \/ TaskManagerNext(MaxFaults)

SpecUpdate == Init /\ [][NextUpdate]_vars

----------------------------------------------------------------------------
(* Properties *)

AllPending(obj) ==
    \A i \in 1..Len(obj.Components) :
        obj.Components[i].CompStatus = ComponentStatusPending

\* C1: a CreateVrf for an id that is already stored returns the stored object
\* as it is, leaves the store (spec, resource version, component statuses)
\* unchanged, enqueues no task and publishes no notification.
C1_CreateIsIdempotent ==
    [][\A id \in VrfNames :
        (id \in DOMAIN store /\ last'.op = "CreateVrf" /\ last'.name = id)
        => /\ last'.code = CodeOK
           /\ last'.ret = <<ToPb(store[id])>>
           /\ store' = store
           /\ taskQueue' = taskQueue
           /\ chans' = chans
           /\ nextNotif' = nextNotif
           /\ nextVersion' = nextVersion]_vars

\* A CreateVrf has just answered for a Vrf that an earlier Create stored and
\* that has come Up since.
C1_Witness ==
    /\ last.op = "CreateVrf"
    /\ last.name \in DOMAIN store
    /\ store[last.name].OperStatus = OperStatusUp
    /\ last.ret = <<ToPb(store[last.name])>>

Quiescent ==
    /\ ~crashed
    /\ taskQueue = <<>>
    /\ tm.state = "idle"
    /\ retries = {}
    /\ \A key \in SubKeys : chans[key] = <<>>

Stored(kind) == {n \in DOMAIN store : store[n].Kind = kind}

\* C3: a DeleteVrf of a Vrf that has an Svi among its dependents answers
\* FailedPrecondition and changes nothing: not the Vrf's OperStatus, components
\* or ResourceVersion, and no task is enqueued.
C3_DeleteWithDependents ==
    [][\A n \in Stored(KindVrf) :
        (store[n].Svis # {} /\ last'.op = "DeleteVrf" /\ last'.name = n)
        => /\ last'.code = CodeFailedPrecondition
           /\ store' = store
           /\ taskQueue' = taskQueue
           /\ nextVersion' = nextVersion]_vars

\* A DeleteVrf has just been refused for a Vrf that an Svi references.
C3_Witness ==
    /\ last.op = "DeleteVrf"
    /\ last.code = CodeFailedPrecondition
    /\ last.name \in Stored(KindVrf)
    /\ \E s \in Stored(KindSvi) :
            store[s].Spec.Vrf = last.name /\ s \in store[last.name].Svis

\* C4: a DeleteVrf of a name that is not stored answers NotFound when
\* AllowMissing is false and succeeds when it is true, and changes nothing.
C4_DeleteMissing ==
    [][\A n \in VrfNames :
        (n \notin DOMAIN store /\ last'.op = "DeleteVrf" /\ last'.name = n)
        => /\ last'.code = IF last'.args[1] THEN CodeOK ELSE CodeNotFound
           /\ store' = store
           /\ taskQueue' = taskQueue]_vars

\* C5: in every quiescent state the Vrf and the LogicalBridge of every stored
\* Svi are stored, and that bridge's Svi field is the Svi's name.
C5_SviReferencesResolve ==
    Quiescent =>
        \A s \in Stored(KindSvi) :
            /\ store[s].Spec.Vrf \in Stored(KindVrf)
            /\ store[s].Spec.LogicalBridge \in Stored(KindLB)
            /\ store[store[s].Spec.LogicalBridge].Svi = s

C7_OneSviPerBridge ==
    [][/\ \A l \in Stored(KindLB), s \in SviNames :
            store[l].Svi # ""
            => (AddSvi(store[l], s).err /\ AddSvi(store[l], s).lb = store[l])
       /\ (/\ last'.op = "CreateSvi"
           /\ last'.name \notin DOMAIN store
           /\ last'.args[2] \in Stored(KindLB)
           /\ store[last'.args[2]].Svi # "")
          => /\ last'.code = CodeFailedPrecondition
             /\ store' = store
             /\ taskQueue' = taskQueue]_vars

\* A CreateSvi of a second Svi has just been refused on a bridge that
\* another stored Svi holds.
C7_Witness ==
    /\ last.op = "CreateSvi"
    /\ last.code = CodeFailedPrecondition
    /\ last.name \notin DOMAIN store
    /\ last.args[1] \in Stored(KindVrf)
    /\ last.args[2] \in Stored(KindLB)
    /\ store[last.args[2]].Svi \in Stored(KindSvi)

\* The MacTable of a bridge holds exactly the addresses of its ports, each
\* under the port that has it.
MacTableMatches(l) ==
    /\ \A p \in store[l].BridgePorts :
          /\ store[p].Spec.MacAddress \in DOMAIN store[l].MacTable
          /\ store[l].MacTable[store[p].Spec.MacAddress] = p
    /\ \A m \in DOMAIN store[l].MacTable : store[l].MacTable[m] \in store[l].BridgePorts

C9_ToBeDeletedVrfHasNoSvis ==
    Quiescent =>
        \A v \in Stored(KindVrf) :
            store[v].OperStatus = OperStatusToBeDeleted => store[v].Svis = {}

\* C10: in every quiescent state a stored object is Up exactly when every one
\* of its components is Success.
C10_UpIffAllSuccess ==
    Quiescent =>
        \A n \in DOMAIN store :
            store[n].OperStatus = OperStatusUp <=> checkForAllSuccess(store[n])

\* C11: once start-up has completed the GRD Vrf is in the store and is not
\* ToBeDeleted, whatever RPCs have been served since.
C11_GrdStays ==
    Started =>
        /\ GrdName \in DOMAIN store
        /\ store[GrdName].OperStatus # OperStatusToBeDeleted

\* The task of an object at its stored version is in the queue.
FreshTaskQueued(q, st, n) ==
    \E i \in 1..Len(q) :
        q[i].name = n /\ q[i].resourceVersion = st[n].ResourceVersion

\* C12: every Error a subscriber persists has the timer of the stored
\* component doubled, 2 when that was 0, and never more than 64; the worker
\* woken with an Error retries the task when the timer is under 64 and turns
\* to replay, without a retry, when it is 64; and the replay, once preReplay
\* is acknowledged, puts one task in the queue for every persisted object at
\* its new version, with the failing component Pending.
C12_BackoffThenReplay ==
    [][/\ \A n \in DOMAIN store \cap DOMAIN store' :
            \A i \in 1..Len(store[n].Components) :
                (/\ store'[n].Components[i] # store[n].Components[i]
                 /\ store'[n].Components[i].CompStatus = ComponentStatusError)
                => /\ store'[n].Components[i].Timer =
                        IF store[n].Components[i].Timer = 0 THEN 2
                        ELSE 2 * store[n].Components[i].Timer
                   /\ store'[n].Components[i].Timer \in {2, 4, 8, 16, 32, 64}
       /\ (tm.state = "woken" /\ tm.comp.CompStatus = ComponentStatusError /\ tm' # tm)
          => IF tm.comp.Timer >= replayThreshold
             THEN /\ tm'.state = "replay"
                  /\ retries' = retries
                  /\ taskQueue' = taskQueue
             ELSE /\ tm'.state = "idle"
                  /\ retries' = retries \cup {tm.task}
       /\ (tm.state = "replay" /\ tm'.state # "replay")
          => /\ errCh # <<>>
             /\ DOMAIN store' = DOMAIN store
             /\ \A n \in DOMAIN store :
                    /\ store'[n].ResourceVersion # store[n].ResourceVersion
                    /\ FreshTaskQueued(taskQueue', store', n)
                    /\ StoredComponent(store'[n], tm.comp.Name).CompStatus
                          \in {"", ComponentStatusPending}]_vars

\* The frr component of v1 has failed six times: its stored timer is 64 and
\* the worker, woken with it, has turned to replay.
C12_Witness ==
    /\ tm.state = "replay"
    /\ tm.comp.Name = frrComp
    /\ tm.comp.Timer = 64
    /\ "v1" \in DOMAIN store
    /\ StoredComponent(store["v1"], frrComp).CompStatus = ComponentStatusError
    /\ StoredComponent(store["v1"], frrComp).Timer = 64

\* C13: an UpdateVrf of a stored Vrf whose masked result is the stored spec
\* returns the stored object and leaves the store (version and component
\* statuses with it) and the task queue unchanged.
C13_UpdateNoChange ==
    [][\A n \in DOMAIN store :
        (/\ last'.op = "UpdateVrf"
         /\ last'.name = n
         /\ [Vni |-> last'.args[2], LoopbackIP |-> last'.args[3]] = store[n].Spec)
        => /\ last'.code = CodeOK
           /\ last'.ret = <<ToPb(store[n])>>
           /\ store' = store
           /\ taskQueue' = taskQueue
           /\ nextVersion' = nextVersion]_vars

\* An UpdateVrf with the stored spec has just answered for a Vrf that is Up.
C13_Witness ==
    /\ last.op = "UpdateVrf"
    /\ last.name \in DOMAIN store
    /\ [Vni |-> last.args[2], LoopbackIP |-> last.args[3]] = store[last.name].Spec
    /\ store[last.name].OperStatus = OperStatusUp
    /\ last.ret = <<ToPb(store[last.name])>>

\* C14: every UpdateVrf that is applied writes its masked fields over the
\* spec stored at that moment (it has read the result of every update
\* applied before it) and installs a version that was not stored; an
\* UpdateVrf of a stored object that is not applied answers VersionMismatch
\* or returns the stored object.
C14_NoLostUpdate ==
    [][\A n \in DOMAIN store :
        (last'.op = "UpdateVrf" /\ last'.name = n)
        => \/ last'.code = CodeVersionMismatch /\ store' = store
           \/ /\ last'.code = CodeOK
              /\ n \in DOMAIN store'
              /\ store'[n].Spec = ApplyMaskToStoredPbObject(last'.args[2],
                                      store[n].Spec, last'.args[3], last'.args[4])
              /\ store' # store => store'[n].ResourceVersion # store[n].ResourceVersion]_vars

\* The step replaces the stored value of n: an Update that changes its spec,
\* the marking of a Delete, or the preparation of a replay.
Mutated(n) ==
    \/ store'[n].Spec # store[n].Spec
    \/ /\ store'[n].OperStatus = OperStatusToBeDeleted
       /\ store[n].OperStatus # OperStatusToBeDeleted
    \/ tm.state = "replay" /\ tm'.state # "replay"

\* C15: every step that replaces the stored value of an object (a
\* field-changing Update, the Delete marking, replay preparation) installs a
\* resource version that differs from the one stored before and from the
\* version of every other stored object.
C15_MutationBumpsVersion ==
    [][\A n \in DOMAIN store \cap DOMAIN store' :
        Mutated(n)
        => /\ store'[n].ResourceVersion # store[n].ResourceVersion
           /\ \A m \in DOMAIN store :
                 store'[n].ResourceVersion # store[m].ResourceVersion]_vars

\* A replay has prepared v1: its frr component is Pending again next to a
\* Success of lgm, it has the newest version, and its task is in the queue.
C15_Witness ==
    /\ "v1" \in DOMAIN store
    /\ StoredComponent(store["v1"], lgmComp).CompStatus = ComponentStatusSuccess
    /\ StoredComponent(store["v1"], frrComp).CompStatus = ComponentStatusPending
    /\ store["v1"].ResourceVersion = nextVersion
    /\ nextVersion >= 2
    /\ FreshTaskQueued(taskQueue, store, "v1")

\* C16: ListVrfs answers with exactly the stored Vrfs, sorted by name.
C16_ListIsStore ==
    [][last'.op = "ListVrfs"
        => /\ last'.code = CodeOK
           /\ last'.ret =
                [i \in 1..Len(SortByName(Stored(KindVrf))) |->
                    ToPb(store[SortByName(Stored(KindVrf))[i]])]]_vars

\* C17: a handler that takes a notification whose resource version is not the
\* stored object's makes a status update that is rejected with
\* VersionMismatch: the store (components, OperStatus and version of the
\* object with it) and the waiting task manager are as before.
C17_StaleStatusRejected ==
    [][\A key \in SubKeys :
        (/\ chans[key] # <<>>
         /\ chans'[key] = Tail(chans[key])
         /\ Head(chans[key]).Name \in DOMAIN store
         /\ Head(chans[key]).ResourceVersion
                # store[Head(chans[key]).Name].ResourceVersion)
        => /\ last'.op = "UpdateStatus"
           /\ last'.code = CodeVersionMismatch
           /\ store' = store
           /\ tm' = tm]_vars

\* A status update has just been rejected for a stored Vrf whose version had
\* moved while the notification of the older version was waiting.
C17_Witness ==
    /\ last.op = "UpdateStatus"
    /\ last.code = CodeVersionMismatch
    /\ last.name \in DOMAIN store
    /\ last.args[1] < store[last.name].ResourceVersion
    /\ tm.state = "waiting"
    /\ tm.task.resourceVersion = last.args[1]

\* C18: a CreateSvi with EnableBgp set and a RemoteAs outside 1..65535
\* answers InvalidArgument and changes nothing.
C18_RemoteAsRange ==
    [][(/\ last'.op = "CreateSvi"
        /\ last'.args[3]
        /\ last'.args[4] \notin 1..65535)
        => /\ last'.code = CodeInvalidArgument
           /\ store' = store
           /\ taskQueue' = taskQueue
           /\ nextVersion' = nextVersion]_vars

\* The object has reached the goal of its stored version: it is Up with the
\* timer of every component cleared.
Converged(n) ==
    /\ store[n].OperStatus = OperStatusUp
    /\ \A i \in 1..Len(store[n].Components) : store[n].Components[i].Timer = 0

\* C19: a stored object whose version is not replaced by a later write comes
\* Up with every timer cleared, or its row is removed, when the subscribers
\* answer in time and stop failing.
C19_Converges ==
    \A n \in VrfNames : \A v \in 1..MaxVersion :
        (n \in DOMAIN store /\ store[n].ResourceVersion = v)
        ~> \/ n \notin DOMAIN store
           \/ store[n].ResourceVersion # v
           \/ Converged(n)

\* A Vrf has come Up with its timers cleared after a subscriber had failed
\* once and the task was retried.
C19_Witness ==
    /\ "v1" \in DOMAIN store
    /\ Converged("v1")
    /\ faults = MaxFaults
    /\ Quiescent

\* C20: the components of every stored object are, by name and in order, the
\* subscribers of its kind, in quiescent states and in every other state:
\* no status update, retry or replay adds, removes or reorders one.
C20_ComponentsMatchSubscribers ==
    \A n \in DOMAIN store :
        [i \in 1..Len(store[n].Components) |-> store[n].Components[i].Name]
            = GetSubscribers(store[n].Kind)

\* A quiescent state after retries and a replay: v1 and lb1 are stored and
\* hold versions that only a replay hands out.
C20_Witness ==
    /\ Quiescent
    /\ {"v1", "lb1"} \subseteq DOMAIN store
    /\ faults = MaxReplayFaults
    /\ store["v1"].ResourceVersion >= 3
    /\ store["v1"].OperStatus = OperStatusUp

(* BridgePort shapes *)

\* The (Ptype, LogicalBridges) pairs of every kind of request: an Access port
\* with no, one and two bridges, a Trunk port with none and with one.
AllPortShapes ==
    {<<"Access", <<>>>>, <<"Access", <<"lb1">>>>, <<"Access", <<"lb1", "lb9">>>>,
     <<"Trunk", <<>>>>, <<"Trunk", <<"lb1">>>>}

\* One bridge and the ports of every shape on it.
NextPortShapes ==
    \/ \E id \in LBNames : createLogicalBridge(id)
    \/ \E id \in BPNames, shape \in AllPortShapes :
            createBridgePort(id, shape[1], IF id = "bp1" THEN "m1" ELSE "m2", shape[2])
    \/ \E id \in BPNames : deleteBridgePort(id, FALSE)
    \/ TaskManagerNext(MaxFaults)

SpecPortShapes == Init /\ [][NextPortShapes]_vars

SubPosition(kind, sub) ==
    CHOOSE i \in 1..Len(GetSubscribers(kind)) : GetSubscribers(kind)[i] = sub

\* The component at position j has been reported Success for the version of
\* notification od: it is stored so, or the worker has just been woken by it.
ReportedSuccess(od, kind, j) ==
    \/ /\ od.Name \in DOMAIN store
       /\ store[od.Name].ResourceVersion = od.ResourceVersion
       /\ store[od.Name].Components[j].CompStatus = ComponentStatusSuccess
    \/ /\ tm.state = "woken"
       /\ tm.task.name = od.Name
       /\ tm.task.resourceVersion = od.ResourceVersion
       /\ tm.comp.Name = GetSubscribers(kind)[j]
       /\ tm.comp.CompStatus = ComponentStatusSuccess

\* C22: a subscriber is notified of an object version only when every
\* subscriber of higher priority has been reported Success for that version;
\* so notifications go in priority order and none goes past an Error.
C22_NotifiedInPriorityOrder ==
    [][\A key \in SubKeys :
          Len(chans'[key]) > Len(chans[key]) =>
              LET od == chans'[key][Len(chans'[key])] IN
              \A j \in 1..(SubPosition(key[2], key[1]) - 1) :
                  ReportedSuccess(od, key[2], j)]_vars

\* The second subscriber of a Vrf is notified after the first one failed once
\* and succeeded on the retry.
C22_Witness ==
    /\ chans[<<frrComp, KindVrf>>] # <<>>
    /\ faults >= 1
    /\ "v1" \in DOMAIN store
    /\ store["v1"].Components[1].CompStatus = ComponentStatusSuccess
    /\ store["v1"].Components[2].CompStatus = ComponentStatusPending
    /\ store["v1"].ResourceVersion = chans[<<frrComp, KindVrf>>][1].ResourceVersion
    /\ tm.state = "waiting"

\* C23: when the worker takes a task whose object has been written since the
\* task was made (or is gone), the task is dropped: no subscriber is
\* notified, no status changes, the worker stays idle and no retry is armed.
C23_SupersededTaskDropped ==
    [][(tm.state = "idle" /\ taskQueue # <<>> /\ taskQueue' = Tail(taskQueue)
            /\ Stale(Head(taskQueue)))
        => (chans' = chans /\ store' = store /\ tm' = tm /\ retries' = retries
            /\ nextNotif' = nextNotif)]_vars

\* A retry that waited for its backoff is dropped after the Vrf was written:
\* the stored version is newer than the task's and the worker is idle.
C23_Witness ==
    /\ last.op = "DropTask"
    /\ faults >= 1
    /\ last.name \in DOMAIN store
    /\ store[last.name].ResourceVersion > last.args[1]
    /\ tm.state = "idle"

(* The FRR handlers *)

\* The step takes the notification od from the channel of frr for `kind`.
FrrHandles(kind) ==
    /\ chans[<<frrComp, kind>>] # <<>>
    /\ chans'[<<frrComp, kind>>] = Tail(chans[<<frrComp, kind>>])

\* What one call of Update<Kind>Status with the notification's Name,
\* ResourceVersion and NotificationID leaves behind: accepted, the frr
\* component of the object is set (or the last Success removed the row) and
\* the worker that waits for this NotificationID is woken; rejected, the
\* error comes back for this name and version and nothing is written.
StatusCalledOnceFor(od) ==
    /\ ~crashed'
    /\ IF UpdateStatusAccepted(od)
       THEN /\ \/ od.Name \notin DOMAIN store'
               \/ StoredComponent(store'[od.Name], frrComp).CompStatus
                      # ComponentStatusPending
            /\ (tm.state = "waiting" /\ tm.nid = od.NotificationID)
                   => (tm'.state = "woken" /\ tm'.comp.Name = frrComp)
       ELSE /\ store' = store /\ tm' = tm
            /\ last'.op = "UpdateStatus" /\ last'.name = od.Name
            /\ last'.args = <<od.ResourceVersion>>
            /\ last'.code = UpdateStatusErr(od)

\* C24: for every vrf or svi notification the FRR handler takes, it calls
\* the matching Update<Kind>Status exactly once with the notification's own
\* Name, ResourceVersion and NotificationID, on every path.
C24_StatusUpdateOncePerNotification ==
    [][\A kind \in {KindVrf, KindSvi} :
          FrrHandles(kind) => StatusCalledOnceFor(Head(chans[<<frrComp, kind>>]))]_vars

\* C25: when the ResourceVersion of a notification is not the one of the
\* re-fetched object, the FRR handler runs neither set-up nor tear-down (no
\* FRR command fails or panics, nothing is written) and reports its component
\* as Error.
C25_MismatchReportsError ==
    [][\A kind \in {KindVrf, KindSvi} :
          LET od == Head(chans[<<frrComp, kind>>]) IN
          (FrrHandles(kind) /\ od.Name \in DOMAIN store
                /\ od.ResourceVersion # store[od.Name].ResourceVersion)
          => /\ last'.op = "UpdateStatus" /\ last'.name = od.Name
             /\ last'.ret[1].Name = frrComp
             /\ last'.ret[1].CompStatus = ComponentStatusError
             /\ faults' = faults /\ crashed' = crashed /\ store' = store]_vars

\* frr has just reported Error for a notification of an Svi whose stored
\* version is newer than the notification's.
C25_Witness ==
    /\ last.op = "UpdateStatus"
    /\ last.name \in DOMAIN store
    /\ store[last.name].Kind = KindSvi
    /\ last.args[1] < store[last.name].ResourceVersion
    /\ last.ret[1].Name = frrComp
    /\ last.ret[1].CompStatus = ComponentStatusError

C27_TimersPerComponent ==
    [][\A key \in SubKeys :
          LET od == Head(chans[key])
              c == last'.ret[1]
          IN
          (chans[key] # <<>> /\ chans'[key] = Tail(chans[key])
                /\ UpdateStatusAccepted(od) /\ ~crashed')
          => /\ c.Name = key[1]
             /\ c.CompStatus = ComponentStatusSuccess => c.Timer = 0
             /\ c.CompStatus = ComponentStatusError =>
                    c.Timer = IF StoredComponent(store[od.Name], key[1]).Timer = 0
                              THEN 2
                              ELSE 2 * StoredComponent(store[od.Name], key[1]).Timer
             /\ od.Name \in DOMAIN store' =>
                    \A i \in 1..Len(store[od.Name].Components) :
                        store'[od.Name].Components[i] =
                            IF store[od.Name].Components[i].Name = key[1]
                            THEN c ELSE store[od.Name].Components[i]]_vars

\* frr has just failed for the third time on a Vrf: its Timer is 8 while the
\* component of lgm is Success with Timer 0 and its own Details.
C27_Witness ==
    /\ last.op = OpSetUp /\ last.name = "v1"
    /\ last.ret[1].Name = frrComp
    /\ last.ret[1].Timer = 8
    /\ "v1" \in DOMAIN store
    /\ store["v1"].Components[1] = Component(lgmComp, ComponentStatusSuccess, "", 0)
    /\ store["v1"].Components[2].CompStatus = ComponentStatusError
    /\ store["v1"].Components[2].Timer = 8

(* Replay *)

\* The replay driver runs in this step.
ReplayStep == tm.state = "replay" /\ tm'.state = "idle"

\* Component i of obj is one that a replay for componentName resets.
IsReset(obj, componentName, i) ==
    \/ obj.Components[i].Name = componentName
    \/ obj.Components[i].CompStatus # ComponentStatusSuccess

\* The task that the replay step has put in the queue for object n.
ReplayTask(n) ==
    taskQueue'[CHOOSE i \in (Len(taskQueue) + 1)..Len(taskQueue') :
                    taskQueue'[i].name = n]

\* C28: prepareObjectsForReplay(componentName, subs) resets to Pending, with
\* empty Details and zero Timer, exactly the components named componentName
\* or not in Success, leaves every other component unchanged, changes an
\* OperStatus Up to Down, bumps the ResourceVersion, and returns exactly the
\* subscribers at the positions of the reset components, in priority order.
C28_PrepareObjectsForReplay ==
    [][ReplayStep =>
        \A n \in DOMAIN store :
            LET old == store[n]
                new == store'[n]
                subs == GetSubscribers(old.Kind)
                ret == ReplayTask(n).subs
            IN
            /\ \A i \in 1..Len(old.Components) :
                   new.Components[i] =
                       IF IsReset(old, tm.comp.Name, i)
                       THEN Component(old.Components[i].Name,
                                      ComponentStatusPending, "", 0)
                       ELSE old.Components[i]
            /\ new.OperStatus = IF old.OperStatus = OperStatusUp
                                THEN OperStatusDown ELSE old.OperStatus
            /\ new.ResourceVersion > old.ResourceVersion
            /\ ReplayTask(n).resourceVersion = new.ResourceVersion
            /\ Len(ret) = Cardinality({i \in 1..Len(subs) : IsReset(old, tm.comp.Name, i)})
            /\ \A i \in 1..Len(subs) :
                   IsReset(old, tm.comp.Name, i) <=> (\E a \in 1..Len(ret) : ret[a] = subs[i])
            /\ \A a, b \in 1..Len(ret) :
                   a < b => SubPosition(old.Kind, ret[a]) < SubPosition(old.Kind, ret[b])]_vars

\* After a replay asked for by frr: the bridge, whose one component was
\* Success, is Down with that component untouched and a task without
\* subscribers; the Vrf has its frr component reset and a task for frr alone.
C28_Witness ==
    /\ "lb1" \in DOMAIN store /\ "v1" \in DOMAIN store
    /\ store["lb1"].OperStatus = OperStatusDown
    /\ store["lb1"].Components[1].CompStatus = ComponentStatusSuccess
    /\ store["v1"].Components[1].CompStatus = ComponentStatusSuccess
    /\ store["v1"].Components[2] = Component(frrComp, ComponentStatusPending, "", 0)
    /\ \E i, j \in 1..Len(taskQueue) :
           /\ taskQueue[i].name = "lb1" /\ taskQueue[i].subs = <<>>
           /\ taskQueue[i].resourceVersion = store["lb1"].ResourceVersion
           /\ taskQueue[j].name = "v1" /\ taskQueue[j].subs = <<frrComp>>
           /\ taskQueue[j].resourceVersion = store["v1"].ResourceVersion

\* The client of this specification asks for an object that is not stored
\* yet, once the task manager and the subscribers have nothing left to do.
ClientWaits(id) ==
    /\ taskQueue = <<>> /\ tm.state = "idle" /\ retries = {}
    /\ \A key \in SubKeys : chans[key] = <<>>
    /\ id \notin DOMAIN store

\* One object of each kind, then a replay of all four.
NextReplayAll ==
    \/ \E id \in VrfNames : ClientWaits(id) /\ CreateVrf(id, 100, 1)
    \/ \E id \in LBNames : ClientWaits(id) /\ createLogicalBridge(id)
    \/ ClientWaits("bp1") /\ createBridgePort("bp1", "Access", "m1", <<"lb1">>)
    \/ ClientWaits("s1") /\ createSvi("s1", "v1", "lb1", FALSE, 0)
    \/ TaskManagerNext(MaxReplayFaults)
    \/ \E fails \in PreReplayFailures : handlePreReplay(fails)
    \/ replayUpTo(MaxReplayVersion)

SpecReplayAll == Init /\ [][NextReplayAll]_vars

\* The place of a kind in the walk of the replay.
KindRank(kind) ==
    IF kind = KindVrf THEN 1 ELSE IF kind = KindLB THEN 2
    ELSE IF kind = KindBP THEN 3 ELSE 4

NextPreReplay ==
    \/ \E id \in VrfNames : ClientWaits(id) /\ CreateVrf(id, 100, 1)
    \/ TaskManagerNext(MaxReplayFaults)
    \/ \E fails \in SUBSET Range(PreReplaySteps) : handlePreReplay(fails)
    \/ replay

SpecPreReplay == Init /\ [][NextPreReplay]_vars

\* C30: for the preReplay action delivered to it, the FRR subscriber writes
\* exactly one value to ErrCh on every path: nil when every pre-replay step
\* succeeded, otherwise the error of the step that failed, the steps after
\* it not being run.
C30_OneValueOnErrCh ==
    [][(tm.state = "replay" /\ errCh = <<>> /\ last'.op = "preReplay")
        => LET fails == last'.args[1] IN
           /\ Len(errCh') = 1
           /\ (fails = {}) <=> (errCh'[1] = ErrNil)
           /\ fails # {} =>
                \E i \in 1..Len(PreReplaySteps) :
                    /\ errCh'[1] = PreReplaySteps[i]
                    /\ PreReplaySteps[i] \in fails
                    /\ \A j \in 1..(i - 1) : PreReplaySteps[j] \notin fails
      ]_vars

\* The subscriber has just written the error of os.WriteFile, the first of
\* two steps that fail, to ErrCh.
C30_Witness ==
    /\ last.op = "preReplay"
    /\ last.args[1] = {"writeFile", "restart"}
    /\ errCh = <<"writeFile">>
    /\ tm.state = "replay"

(* Concurrent Create *)

\* CreateVrf as the gRPC server runs it next to other calls, in two steps.
\* First step: validation and s.getVrf; a stored object is returned at once.
CreateVrfFetch(client, id, vni, loopback) ==
    /\ ~crashed
    /\ \A req \in inflight : req.client # client
    /\ IF getErr(id) = ErrNil
       THEN /\ last' = Resp("CreateVrf", id, <<client, "getVrf">>, CodeOK,
                            <<ToPb(store[id])>>)
            /\ UNCHANGED inflight
       ELSE /\ inflight' = inflight \cup
                    {[client |-> client, name |-> id, vni |-> vni, loopback |-> loopback]}
            /\ last' = NoResp
    /\ UNCHANGED <<store, ListHelper, nextVersion, taskQueue>>
    /\ RPCsUnchanged

\* The second step without the facade's look under its lock.
CreateVrfStoreNoCheck(req) ==
    /\ ~crashed
    /\ req \in inflight
    /\ inflight' = inflight \ {req}
    /\ nextVersion < MaxVersion
    /\ createObject("CreateVrf", NewVrf(req.name, req.vni, req.loopback, nextVersion + 1),
                    EmptyMap, <<req.client, "createVrf">>)
    /\ RPCsUnchanged

\* Second step: s.createVrf calls the facade's Create, which takes the write
\* lock of the kind, returns the stored object when the key exists by now,
\* and else persists the new object and enqueues its task.
CreateVrfStore(req) ==
    /\ ~crashed
    /\ req \in inflight
    /\ inflight' = inflight \ {req}
    /\ IF getErr(req.name) = ErrNil
       THEN /\ last' = Resp("CreateVrf", req.name, <<req.client, "createVrf">>, CodeOK,
                            <<ToPb(store[req.name])>>)
            /\ UNCHANGED <<store, ListHelper, nextVersion, taskQueue>>
       ELSE /\ nextVersion < MaxVersion
            /\ createObject("CreateVrf",
                            NewVrf(req.name, req.vni, req.loopback, nextVersion + 1),
                            EmptyMap, <<req.client, "createVrf">>)
    /\ RPCsUnchanged

\* The clients of the concurrent Create calls and the Vni each one asks for.
Clients == {1, 2}
ClientVni(client) == 100 * client

\* The vrf service with CreateVrf calls running next to each other.
NextCreate ==
    \/ \E c \in Clients, id \in VrfNames : CreateVrfFetch(c, id, ClientVni(c), 1)
    \/ \E req \in inflight : CreateVrfStore(req)
    \/ TaskManagerNext(MaxFaults)

SpecCreate == Init /\ [][NextCreate]_vars

-----------------------------------------------------------------------------
(* Concurrent List: the gRPC server runs every handler on a goroutine of    *)
(* its own, and the Server holds s.Pagination and s.ListHelper as plain Go  *)
(* maps with no lock beside them.  Only the accesses of the two maps are    *)
(* followed here: a handler that is in the middle of one is in inflight.    *)

MapPagination == "Pagination"
MapListHelper == "ListHelper"

ListVrfNames == {"v1", "v2"}
PageSizes == {1, 2}

\* utils.LimitPagination at offset 0: the first size elements, and whether
\* more are left (written from the specification: List is paginated).
LimitPagination(result, size) ==
    <<SubSeq(result, 1, IF Len(result) < size THEN Len(result) ELSE size),
      Len(result) > size>>

\* ListVrfs without a page token, up to the for-range over s.ListHelper: the
\* iteration has started on the keys the map has now.
ListVrfsRange(client, size) ==
    /\ ~crashed
    /\ \A r \in inflight : r.client # client
    /\ inflight' = inflight \cup
            {[client |-> client, name |-> "ListVrfs", size |-> size,
              access |-> MapListHelper, write |-> FALSE,
              keys |-> ListHelper[KindVrf], ret |-> <<>>]}
    /\ last' = NoResp
    /\ UNCHANGED <<store, ListHelper, nextVersion, taskQueue>>
    /\ RPCsUnchanged

\* The body of the for-range, sortVrfs and LimitPagination.  A map written
\* while it is iterated is a data race: the runtime ends the process with
\* "concurrent map iteration and map write", or the loop goes over the keys
\* as they were or as they are.  A key getVrf does not find ends the call;
\* with more elements left the handler goes on to write s.Pagination[token].
ListVrfsLimit(req) ==
    /\ ~crashed
    /\ req.name = "ListVrfs"
    /\ req.access = MapListHelper
    /\ UNCHANGED <<store, ListHelper, nextVersion, taskQueue>>
    /\ UNCHANGED <<nextNotif, tm, retries, chans, errCh, faults>>
    /\ \E outcome \in IF ListHelper[KindVrf] # req.keys
                      THEN {"fatal", "before", "after"} ELSE {"before"} :
         IF outcome = "fatal"
         THEN /\ crashed' = TRUE
              /\ inflight' = inflight \ {req}
              /\ last' = Resp("ListVrfs", "", <<req.client, req.size>>,
                              "panic", <<>>)
         ELSE LET keys == SortByName(IF outcome = "before" THEN req.keys
                                     ELSE ListHelper[KindVrf])
                  page == LimitPagination(
                            [i \in 1..Len(keys) |->
                                IF keys[i] \in DOMAIN store
                                THEN ToPb(store[keys[i]]) ELSE NoTask],
                            req.size)
              IN /\ crashed' = FALSE
                 /\ IF \E i \in 1..Len(keys) : getErr(keys[i]) # ErrNil
                    THEN /\ inflight' = inflight \ {req}
                         /\ last' = Resp("ListVrfs", "",
                                <<req.client, req.size>>,
                                IF ErrKeyNotFound # BadgerErrKeyNotFound
                                THEN ErrKeyNotFound ELSE CodeNotFound, <<>>)
                    ELSE IF page[2]
                    THEN /\ inflight' = (inflight \ {req}) \cup
                                {[req EXCEPT !.access = MapPagination,
                                             !.write = TRUE,
                                             !.ret = page[1]]}
                         /\ last' = NoResp
                    ELSE /\ inflight' = inflight \ {req}
                         /\ last' = Resp("ListVrfs", "",
                                <<req.client, req.size>>, CodeOK, page[1])

\* s.Pagination[token] = offset + size, then the response.  Two handlers that
\* write the map at once are a data race: the runtime ends the process with
\* "concurrent map writes", or both writes go through.
ListVrfsToken(req) ==
    /\ ~crashed
    /\ req.name = "ListVrfs"
    /\ req.access = MapPagination
    /\ inflight' = inflight \ {req}
    /\ UNCHANGED <<store, ListHelper, nextVersion, taskQueue>>
    /\ UNCHANGED <<nextNotif, tm, retries, chans, errCh, faults>>
    /\ \E outcome \in IF \E r \in inflight \ {req} :
                            r.access = MapPagination /\ r.write
                      THEN {"fatal", "written"} ELSE {"written"} :
         IF outcome = "fatal"
         THEN /\ crashed' = TRUE
              /\ last' = Resp("ListVrfs", "", <<req.client, req.size>>,
                              "panic", <<>>)
         ELSE /\ crashed' = FALSE
              /\ last' = Resp("ListVrfs", "", <<req.client, req.size, "token">>,
                              CodeOK, req.ret)

\* The vrf service under List, Create and Delete of two clients at once, in
\* the time before the task manager takes the first task.
NextList ==
    \/ \E c \in Clients, size \in PageSizes : ListVrfsRange(c, size)
    \/ \E req \in inflight : ListVrfsLimit(req)
    \/ \E req \in inflight : ListVrfsToken(req)
    \/ \E id \in ListVrfNames : CreateVrf(id, 100, 1)
    \/ \E id \in ListVrfNames : DeleteVrf(id, FALSE)

SpecList == Init /\ [][NextList]_vars

\* C32: the pagination-token map and the list-helper map are used under
\* mutual exclusion: no two handlers are in the same map at once when one of
\* them writes it, and no Create or Delete writes s.ListHelper while a List
\* iterates over it.
C32_MapsMutuallyExclusive ==
    /\ [](\A r1, r2 \in inflight :
            (r1 # r2 /\ r1.access = r2.access) => (~r1.write /\ ~r2.write))
    /\ [][ListHelper' # ListHelper
            => \A r \in inflight : r.access # MapListHelper]_vars

(* New objects *)

\* C33: a Create that stores an object stores and returns it with OperStatus
\* Down and with one component per subscriber of its kind, in the subscribers'
\* order, each Pending with empty Details and Timer 0; its ResourceVersion is
\* the one generated in this call, above every version stored before.
C33_CreatedObjectIsDownPending ==
    [][\A kind \in Kinds : \A id \in Stored(kind)' \ DOMAIN store :
        (last'.op \in {"CreateVrf", "CreateLogicalBridge", "CreateBridgePort",
                       "CreateSvi"})
        => /\ last'.name = id /\ last'.code = CodeOK
           /\ last'.ret = <<ToPb(store'[id])>>
           /\ last'.ret[1].OperStatus = OperStatusDown
           /\ store'[id].OperStatus = OperStatusDown
           /\ Len(store'[id].Components) = Len(GetSubscribers(kind))
           /\ \A i \in 1..Len(GetSubscribers(kind)) :
                /\ store'[id].Components[i] =
                      Component(GetSubscribers(kind)[i],
                                ComponentStatusPending, "", 0)
                /\ last'.ret[1].Components[i] =
                      [Name |-> GetSubscribers(kind)[i],
                       Status |-> ComponentStatusPending, Details |-> ""]
           /\ store'[id].ResourceVersion = nextVersion'
           /\ nextVersion' > nextVersion
           /\ \A n \in DOMAIN store :
                store[n].ResourceVersion < store'[id].ResourceVersion]_vars

\* CreateSvi has just stored s1 after a replay that gave the Vrf a second
\* version: s1 is Down with its two components Pending, and its version is
\* above the one the replay handed out.
C33_Witness ==
    /\ last.op = "CreateSvi" /\ last.name = "s1" /\ last.code = CodeOK
    /\ "s1" \in DOMAIN store
    /\ store["s1"].OperStatus = OperStatusDown
    /\ Len(store["s1"].Components) = 2
    /\ AllPending(store["s1"])
    /\ store["s1"].ResourceVersion = nextVersion
    /\ "v1" \in DOMAIN store /\ store["v1"].ResourceVersion = 2
    /\ store["s1"].ResourceVersion > 2
    /\ last.ret = <<ToPb(store["s1"])>>

\* C34: an object that was Up before a replay is Up again once the subscribers
\* the replay re-notified for it have reported Success, also when the replay
\* re-notified none: with nothing left to do, every stored object that is not
\* being deleted and has all its components Success is Up.
C34_ReplayedObjectsReturnUp ==
    Quiescent =>
        \A n \in DOMAIN store :
            (checkForAllSuccess(store[n])
                /\ store[n].OperStatus # OperStatusToBeDeleted)
            => store[n].OperStatus = OperStatusUp

-----------------------------------------------------------------------------
(* AddBridgePort and DeleteBridgePort on one LogicalBridge *)

\* A caller of LogicalBridge.AddBridgePort on the stored bridge: the bridge
\* after the call is the stored one, the error is the response.
callAddBridgePort(l, bpName, bpMac) ==
    /\ ~crashed
    /\ l \in DOMAIN store /\ store[l].Kind = KindLB
    /\ LET r == AddBridgePort(store[l], bpName, bpMac) IN
         /\ store' = Put(store, r.lb)
         /\ last' = Resp("AddBridgePort", l, <<bpName, bpMac>>,
                         IF r.err THEN CodeFailedPrecondition ELSE CodeOK, <<>>)
    /\ UNCHANGED <<ListHelper, nextVersion, taskQueue>>
    /\ TMUnchanged

\* A caller of LogicalBridge.DeleteBridgePort on the stored bridge.
callDeleteBridgePort(l, bpName, bpMac) ==
    /\ ~crashed
    /\ l \in DOMAIN store /\ store[l].Kind = KindLB
    /\ LET r == DeleteBridgePort(store[l], bpName, bpMac) IN
         /\ store' = Put(store, r.lb)
         /\ last' = Resp("DeleteBridgePort", l, <<bpName, bpMac>>,
                         IF r.err THEN CodeFailedPrecondition ELSE CodeOK, <<>>)
    /\ UNCHANGED <<ListHelper, nextVersion, taskQueue>>
    /\ TMUnchanged

\* One LogicalBridge under every sequence of the two calls, on every port name
\* and address.
NextBridge ==
    \/ \E id \in LBNames : createLogicalBridge(id)
    \/ \E l \in LBNames, p \in BPNames, m \in Macs : callAddBridgePort(l, p, m)
    \/ \E l \in LBNames, p \in BPNames, m \in Macs : callDeleteBridgePort(l, p, m)
    \/ TaskManagerNext(MaxFaults)

SpecBridge == Init /\ [][NextBridge]_vars

\* C35: after every sequence of AddBridgePort and DeleteBridgePort calls on a
\* LogicalBridge the values of its MacTable are exactly its BridgePorts, and
\* no port is the value of two addresses.
C35_MacTableValuesArePorts ==
    \A l \in Stored(KindLB) :
        /\ {store[l].MacTable[m] : m \in DOMAIN store[l].MacTable}
                = store[l].BridgePorts
        /\ \A m1, m2 \in DOMAIN store[l].MacTable :
                store[l].MacTable[m1] = store[l].MacTable[m2] => m1 = m2

(* Replay of an object that is being deleted *)

\* A Vrf that is created once and deleted once, with enough failures of one
\* component for a replay before or after the Delete.
NextDeleteReplay ==
    \/ \E id \in VrfNames : nextVersion = 0 /\ CreateVrf(id, 100, 1)
    \/ \E id \in VrfNames :
            /\ id \in DOMAIN store
            /\ store[id].OperStatus # OperStatusToBeDeleted
            /\ DeleteVrf(id, FALSE)
    \/ TaskManagerNext(MaxReplayFaults)
    \/ ReplayNext

SpecDeleteReplay == Init /\ [][NextDeleteReplay]_vars

\* C36: a replay leaves every ToBeDeleted object stored and ToBeDeleted, and
\* the FRR handler that takes the notification of a ToBeDeleted object at its
\* stored version runs tear-down, not set-up.
C36_ReplayKeepsToBeDeleted ==
    [][/\ ReplayStep =>
            \A n \in DOMAIN store :
                store[n].OperStatus = OperStatusToBeDeleted
                => /\ n \in DOMAIN store'
                   /\ store'[n].OperStatus = OperStatusToBeDeleted
       /\ \A kind \in {KindVrf, KindSvi} :
            LET od == Head(chans[<<frrComp, kind>>]) IN
            (FrrHandles(kind) /\ od.Name \in DOMAIN store
                /\ od.ResourceVersion = store[od.Name].ResourceVersion
                /\ store[od.Name].OperStatus = OperStatusToBeDeleted)
            => (last'.name = od.Name /\ last'.op # OpSetUp
                    /\ last'.op = OpTearDown)]_vars

\* A Vrf that was created and deleted, and whose tear-down frr failed up to
\* the threshold: the replay for frr has just given it its third version and
\* a task for frr alone, and it is still ToBeDeleted.
C36_Witness ==
    /\ "v1" \in DOMAIN store
    /\ store["v1"].OperStatus = OperStatusToBeDeleted
    /\ store["v1"].ResourceVersion = 3
    /\ taskQueue = <<Task(KindVrf, "v1", 3, <<frrComp>>)>>
    /\ tm.state = "idle"
    /\ faults = MaxReplayFaults

(* handlevrf on every Vrf shape *)

\* C37: handlevrf, on a Vrf it fetched at the notification's version, runs
\* set-up or tear-down to the end and reports the component, whatever the
\* Vrf's Vni and LoopbackIP are; for the GRD Vrf the report is Success.
C37_HandlevrfNeverAborts ==
    [][LET od == Head(chans[<<frrComp, KindVrf>>]) IN
       (FrrHandles(KindVrf) /\ od.Name \in DOMAIN store
            /\ od.ResourceVersion = store[od.Name].ResourceVersion)
       => /\ ~crashed'
          /\ last'.op \in {OpSetUp, OpTearDown}
          /\ last'.code = CodeOK
          /\ last'.ret # <<>>
          /\ last'.ret[1].Name = frrComp
          /\ IsGRD(od.Name)
                => last'.ret[1].CompStatus = ComponentStatusSuccess]_vars

(* The early returns of the FRR handlers *)

\* C38: an FRR handler that cannot read the object of its notification, or
\* finds it at another version, reports Error with Timer 2 whatever Timer the
\* stored component has; the report is refused, so the store, the worker and
\* the retries are as before, and the worker turns to replay only when it was
\* woken with a Timer at the threshold, which no such report carries.
C38_UnreadableReportsTimerTwo ==
    [][/\ \A kind \in {KindVrf, KindSvi} :
            LET od == Head(chans[<<frrComp, kind>>]) IN
            (FrrHandles(kind)
                /\ (od.Name \in DOMAIN store
                        => od.ResourceVersion # store[od.Name].ResourceVersion))
            => /\ last'.op = "UpdateStatus" /\ last'.name = od.Name
               /\ last'.ret[1].Name = frrComp
               /\ last'.ret[1].CompStatus = ComponentStatusError
               /\ last'.ret[1].Timer = 2
               /\ last'.ret[1].Timer < replayThreshold
               /\ store' = store /\ tm' = tm /\ retries' = retries
               /\ errCh' = errCh /\ taskQueue' = taskQueue
       /\ (tm'.state = "replay" /\ tm.state # "replay")
            => /\ tm.state = "woken"
               /\ tm.comp.Timer >= replayThreshold]_vars

\* frr has just reported Error with Timer 2 for a notification of an older
\* version of a stored Vrf while the worker waits for another notification:
\* the worker still waits.
C38_Witness ==
    /\ last.op = "UpdateStatus"
    /\ last.code = CodeVersionMismatch
    /\ last.name \in Stored(KindVrf)
    /\ last.args[1] < store[last.name].ResourceVersion
    /\ last.ret[1] = Component(frrComp, ComponentStatusError,
                               "Mismatch in resource version", 2)
    /\ tm.state = "waiting"
    /\ retries = {}

(* Update of a missing name *)

\* C39: an UpdateVrf of a name that is not stored answers NotFound and
\* changes nothing when AllowMissing is false; when it is true it stores the
\* object of the request as CreateVrf does: Down, every component Pending, at
\* a new version, with one task for it at the end of the queue, listed, and
\* returned.
C39_UpdateMissing ==
    [][\A id \in VrfNames :
        (id \notin DOMAIN store /\ last'.op = "UpdateVrf" /\ last'.name = id)
        => IF last'.args[1]
           THEN /\ last'.code = CodeOK
                /\ id \in DOMAIN store'
                /\ \A n \in DOMAIN store : store'[n] = store[n]
                /\ store'[id].Spec = [Vni |-> last'.args[2],
                                      LoopbackIP |-> last'.args[3]]
                /\ store'[id].OperStatus = OperStatusDown
                /\ Len(store'[id].Components) = Len(GetSubscribers(KindVrf))
                /\ AllPending(store'[id])
                /\ store'[id].ResourceVersion = nextVersion + 1
                /\ nextVersion' = nextVersion + 1
                /\ taskQueue' = Append(taskQueue,
                        Task(KindVrf, id, nextVersion + 1, GetSubscribers(KindVrf)))
                /\ last'.ret = <<ToPb(store'[id])>>
                /\ ListHelper'[KindVrf] = ListHelper[KindVrf] \cup {id}
           ELSE /\ last'.code = CodeNotFound
                /\ store' = store
                /\ taskQueue' = taskQueue
                /\ nextVersion' = nextVersion
                /\ ListHelper' = ListHelper]_vars

\* An UpdateVrf with AllowMissing has just stored the first object of the
\* store: it is Down and Pending at the first version, its task queued.
C39_Witness ==
    /\ last.op = "UpdateVrf" /\ last.name = "v1" /\ last.code = CodeOK
    /\ last.args[1]
    /\ "v1" \in DOMAIN store
    /\ store["v1"].OperStatus = OperStatusDown
    /\ AllPending(store["v1"])
    /\ store["v1"].ResourceVersion = nextVersion
    /\ nextVersion = 1
    /\ taskQueue = <<Task(KindVrf, "v1", 1, GetSubscribers(KindVrf))>>

-----------------------------------------------------------------------------
(* setComponentState on every list of components *)

MaxComponents == 3

\* The components a stored object can hold: of a subscriber, in any status.
StoredComponents ==
    {Component(n, st, "", 0) :
        n \in {lgmComp, frrComp},
        st \in {ComponentStatusPending, ComponentStatusSuccess,
                ComponentStatusError}}

\* The component lists, two subscribers of one name among them.
ComponentLists ==
    UNION {[1..n -> StoredComponents] : n \in 0..MaxComponents}

\* The components a subscriber reports; lvm is subscribed to no kind here.
ReportedComponents ==
    {Component(n, ComponentStatusSuccess, "done", 0) : n \in {lgmComp, frrComp, "lvm"}}
    \cup {Component(n, ComponentStatusError, "error", 2) : n \in {lgmComp, frrComp, "lvm"}}

\* A stored LogicalBridge with any of the component lists.
InitComponents ==
    /\ \E comps \in ComponentLists :
          store = Put([k \in {} |-> NoTask],
                      [NewLogicalBridge("lb1", 1) EXCEPT !.Components = comps])
    /\ ListHelper = [k \in Kinds |-> IF k = KindLB THEN {"lb1"} ELSE {}]
    /\ nextVersion = 1
    /\ nextNotif = 0
    /\ taskQueue = <<>>
    /\ tm = TMIdle
    /\ retries = {}
    /\ chans = [k \in SubKeys |-> <<>>]
    /\ errCh = <<>>
    /\ faults = 0
    /\ crashed = FALSE
    /\ inflight = {}
    /\ last = NoResp

\* in.setComponentState(component) on the stored object; the response keeps
\* the components as they were before the call.
callSetComponentState(name, component) ==
    /\ name \in DOMAIN store
    /\ store' = Put(store, setComponentState(store[name], component))
    /\ last' = Resp("setComponentState", name, <<component>>, CodeOK,
                    store[name].Components)
    /\ UNCHANGED <<ListHelper, nextVersion, taskQueue>>
    /\ TMUnchanged

NextComponents ==
    \E name \in LBNames, component \in ReportedComponents :
        callSetComponentState(name, component)

SpecComponents == InitComponents /\ [][NextComponents]_vars

\* C40: setComponentState puts the reported component in the place of the
\* first component of its name and leaves every other component, the length
\* and the order of the list as they were; a report whose name is not in the
\* list changes nothing.
C40_SetComponentStateFirstMatch ==
    [][\A n \in DOMAIN store :
        (last'.op = "setComponentState" /\ last'.name = n)
        => LET old == store[n].Components
               new == store'[n].Components
               c == last'.args[1]
           IN /\ Len(new) = Len(old)
              /\ \A i \in 1..Len(old) :
                    /\ new[i].Name = old[i].Name
                    /\ new[i] =
                        IF /\ old[i].Name = c.Name
                           /\ \A j \in 1..(i - 1) : old[j].Name # c.Name
                        THEN c ELSE old[i]
              /\ (\A i \in 1..Len(old) : old[i].Name # c.Name)
                    => store' = store
              /\ [store'[n] EXCEPT !.Components = old] = store[n]]_vars

\* A Success of frr has just been set on a list with two frr components: the
\* first one carries the report, the second is Pending as before.
C40_Witness ==
    /\ last.op = "setComponentState"
    /\ last.args[1] = Component(frrComp, ComponentStatusSuccess, "done", 0)
    /\ last.ret = <<Component(lgmComp, ComponentStatusError, "", 0),
                    Component(frrComp, ComponentStatusPending, "", 0),
                    Component(frrComp, ComponentStatusPending, "", 0)>>
    /\ store["lb1"].Components =
            <<Component(lgmComp, ComponentStatusError, "", 0),
              Component(frrComp, ComponentStatusSuccess, "done", 0),
              Component(frrComp, ComponentStatusPending, "", 0)>>
====
